---- MODULE Spec2Model ----
(***************************************************************************)
(* A model of the Redis user waitlist (src/waitlistManager.ts).            *)
(*                                                                         *)
(* The Redis store is the shared state.  Every Redis command and every     *)
(* EVAL of a Lua script is one atomic step; an async method of             *)
(* WaitlistManager is a sequence of such steps, and the steps of the       *)
(* calls that are in flight interleave freely.  The JavaScript that runs   *)
(* between two awaits is folded into the step whose reply it consumes.     *)
(* One WaitlistManager instance serves all callers, so its fields          *)
(* (lengthLimit, signupCutoff) are shared as well.                         *)
(***************************************************************************)
EXTENDS Integers, Sequences, FiniteSets, TLC

(***************************************************************************)
(* Bounds of the model.                                                    *)
(***************************************************************************)
NumProcs == 3      \* callers; Spec runs NumCallers of them
NumCallers == 2    \* callers that run concurrently in Spec
MaxIds == 3        \* ids uuidv4 may hand out
NumEmails == 2
NumPhones == 2
NumMeta == 2       \* distinct metadata payloads
NumCodes == 2      \* invite codes the generator may produce
MaxBump == 2       \* largest bump a caller asks for
MaxCalls == 3      \* calls started in one behaviour of Spec
MaxSeqCalls == 4   \* calls made one after the other in SpecSeq
MaxLimit == 3      \* largest value given to setListLimit
MaxGateCalls == 6  \* calls made one after the other in SpecGate
MaxCodeCalls == 5  \* calls made one after the other in SpecCode
MaxRaceCalls == 5  \* calls started in one behaviour of SpecRace
NumCommCodes == 1  \* distinct community code strings
MaxMaxUses == 2    \* createCommunityCode is called with maxUses in 0..MaxMaxUses
MaxCommCalls == 4  \* calls started in one behaviour of SpecComm
MaxSameCalls == 4    \* insertUser calls before the movers start in SpecSame
MaxTripCalls == 8    \* calls made one after the other in SpecTrip
MaxGapCalls == 6     \* calls made one after the other in SpecGap
MaxSignedCalls == 5  \* calls made before the concurrent ones in SpecSigned
MaxAttachCalls == 4  \* calls made before the attach calls of SpecAttach

(***************************************************************************)
(* Program constants.                                                      *)
(***************************************************************************)
DefaultLengthLimit == 100000
DefaultInviteCodeLimit == 3
DefaultSignupCutoff == -1
MoveAttempts == 3
ScoreGap == 1000000

None == 0          \* null / undefined / '' / nil
Procs == 1..NumProcs
Callers == 1..NumCallers
Ids == 1..MaxIds
Ghost == MaxIds + 1            \* a caller-supplied id that uuidv4 never issued
Emails == 1..NumEmails
Phones == 1..NumPhones
Metas == 1..NumMeta
Codes == 1..NumCodes
CommCodes == 1..NumCommCodes
MaxUsesValues == 0..MaxMaxUses
BumpValues == 0..MaxBump
TargetPositions == 0..(MaxIds + 2)
CutoffValues == (0 - 2)..MaxIds
LimitValues == (0 - 1)..MaxLimit

(***************************************************************************)
(* Redis list primitives, on TLA+ sequences.                               *)
(***************************************************************************)
RECURSIVE IndexFrom(_, _, _)
IndexFrom(s, x, i) ==
  IF i > Len(s) THEN 0
  ELSE IF s[i] = x THEN i
  ELSE IndexFrom(s, x, i + 1)

\* The LRANGE scan of getPosition: the 1-based index of the first x, or 0.
IndexOf(s, x) == IndexFrom(s, x, 1)

\* A faulty DropAt: it drops the element after the i-th.
DropAt_Next(s, i) == SubSeq(s, 1, i) \o SubSeq(s, i + 2, Len(s))

DropAt(s, i) == SubSeq(s, 1, i - 1) \o SubSeq(s, i + 1, Len(s))

PutAt(s, i, x) == SubSeq(s, 1, i - 1) \o <<x>> \o SubSeq(s, i, Len(s))

\* A faulty LREM: it leaves the list as it is.
LRem1_Keep(s, x) == s

\* LREM key 1 x: remove the first occurrence of x.
LRem1(s, x) == IF IndexOf(s, x) = 0 THEN s ELSE DropAt(s, IndexOf(s, x))

\* A faulty LPUSH: it adds at the tail.
LPush_Tail(s, x) == Append(s, x)

\* LPUSH key x: add at the head.
LPush(s, x) == <<x>> \o s

RPush(s, x) == Append(s, x)

\* LINDEX key i, i >= 0 and 0-based: nil beyond the end.
LIndex(s, i) == IF i >= 0 /\ i < Len(s) THEN s[i + 1] ELSE None

\* LINSERT key BEFORE pivot x: no change when the pivot is absent.
LInsertBefore(s, pivot, x) ==
  IF IndexOf(s, pivot) = 0 THEN s ELSE PutAt(s, IndexOf(s, pivot), x)

SeqToSet(s) == {s[i] : i \in 1..Len(s)}

NoDup(s) == \A i, j \in 1..Len(s) : i # j => s[i] # s[j]

Max(a, b) == IF a >= b THEN a ELSE b

Min(a, b) == IF a <= b THEN a ELSE b

(***************************************************************************)
(* State.                                                                  *)
(***************************************************************************)
VARIABLES
  list,          \* waitlist:list, the order
  users,         \* waitlist:users, id -> stored record
  emails,        \* waitlist:emails, email -> id
  phones,        \* waitlist:phones, phone -> id
  signedUp,      \* waitlist:signed_up
  lock,          \* waitlist:list:lock
  scores,        \* waitlist:scores, the order of the gap-score variant
  inviteCodes,   \* waitlist:invite_codes, code -> creator
  codeBumps,     \* waitlist:invite_code_bumps, code -> minBumpPositions
  usedCodes,     \* waitlist:used_codes, code -> the id that used it
  usedReverse,   \* waitlist:used_codes:reverse, id -> code
  userCodeCount, \* waitlist:user_codes, creator -> number of codes
  userCodeSets,  \* waitlist:user_codes:<creator>, the creator's codes
  codes,         \* waitlist:codes, community code -> JSON {maxUses, currentUses}
  codeUses,      \* waitlist:codes:uses, community code -> counter
  codeUsers,     \* waitlist:code:<code>:users, the contacts that used the code
  lengthLimit,   \* WaitlistManager.lengthLimit
  inviteCodeLimit, \* WaitlistManager.inviteCodeLimit
  signupCutoff,  \* WaitlistManager.signupCutoff
  nextId,        \* the next id uuidv4 hands out
  pc,            \* each caller's position in its call
  loc,           \* each caller's arguments and locals
  ret,           \* history: what each caller's last call returned or threw
  calls          \* calls started so far

listVars == <<list, lock, scores>>
userVars == <<users, emails, phones>>
commVars == <<codes, codeUses, codeUsers>>
codeVars == <<inviteCodes, codeBumps, usedCodes, usedReverse, userCodeCount,
              userCodeSets, commVars>>
mgrVars == <<lengthLimit, inviteCodeLimit, signupCutoff>>
storeVars == <<listVars, userVars, signedUp, codeVars>>
vars == <<list, users, emails, phones, signedUp, lock, scores, inviteCodes, codeBumps,
          usedCodes, usedReverse, userCodeCount, userCodeSets, codes, codeUses,
          codeUsers, lengthLimit, inviteCodeLimit, signupCutoff, nextId, pc, loc, ret, calls>>

\* A value of waitlist:codes: the JSON {maxUses, currentUses}; ex is whether
\* the hash field exists.
NoCode == [ex |-> FALSE, maxUses |-> 0, currentUses |-> 0]

\* A value of waitlist:users: the JSON {id, email, phone, metadata}; ex is
\* whether the hash field exists.  JSON.stringify drops undefined fields,
\* which read back as nil.
NoRec == [ex |-> FALSE, email |-> None, phone |-> None, meta |-> None]

Rec(email, phone, meta) ==
  [ex |-> TRUE, email |-> email, phone |-> phone, meta |-> meta]

\* track: whether the call's outcome is recorded in ret (a specification
\* that does not look at outcomes leaves it FALSE); snap: the order when the
\* call started, recorded with track.
NoLoc ==
  [track |-> FALSE, id |-> None, email |-> None, phone |-> None,
   meta |-> None, target |-> 0, bump |-> 0, attempts |-> 0, pos |-> 0, flag |-> FALSE,
   code |-> None, creator |-> None, rec |-> NoRec, snap |-> <<>>,
   maxUses |-> 0]

Args(track) == [NoLoc EXCEPT !.track = track]

\* A call's outcome.  err = "" for a normal return, whose boolean result (true
\* for an object) is ok; otherwise the message of the Error thrown.  email
\* and phone repeat the contact data the call was given, code its invite
\* code.
NoRet ==
  [op |-> "", ok |-> FALSE, err |-> "", id |-> None, pos |-> 0,
   existed |-> FALSE, email |-> None, phone |-> None, code |-> None,
   arg |-> None]

Result(op, ok) == [NoRet EXCEPT !.op = op, !.ok = ok]

Thrown(op, msg) == [NoRet EXCEPT !.op = op, !.err = msg]

Inserted(op, l) ==
  [NoRet EXCEPT !.op = op, !.ok = TRUE, !.id = l.id, !.pos = l.pos,
                !.existed = l.flag, !.email = l.email, !.phone = l.phone]

Init ==
  /\ list = <<>>
  /\ users = [i \in 1..Ghost |-> NoRec]
  /\ emails = [e \in Emails |-> None]
  /\ phones = [f \in Phones |-> None]
  /\ signedUp = {}
  /\ lock = FALSE
  /\ scores = {}
  /\ inviteCodes = [c \in Codes |-> None]
  /\ codeBumps = [c \in Codes |-> None]
  /\ usedCodes = [c \in Codes |-> None]
  /\ usedReverse = [i \in 1..Ghost |-> None]
  /\ userCodeCount = [i \in 1..Ghost |-> 0]
  /\ userCodeSets = [i \in 1..Ghost |-> {}]
  /\ codes = [c \in CommCodes |-> NoCode]
  /\ codeUses = [c \in CommCodes |-> 0]
  /\ codeUsers = [c \in CommCodes |-> {}]
  /\ lengthLimit = DefaultLengthLimit
  /\ inviteCodeLimit = DefaultInviteCodeLimit
  /\ signupCutoff = DefaultSignupCutoff
  /\ nextId = 1
  /\ pc = [p \in Procs |-> "idle"]
  /\ loc = [p \in Procs |-> NoLoc]
  /\ ret = [p \in Procs |-> NoRet]
  /\ calls = 0

\* The ids a caller can name: those handed out so far, and a foreign one.
KnownIds == (1..(nextId - 1)) \cup {Ghost}

\* A call starts with its first Redis command, issued by an idle caller.
Begin(p) ==
  /\ pc[p] = "idle"
  /\ calls' = calls + 1

Goto(p, step, l) ==
  /\ pc' = [pc EXCEPT ![p] = step]
  /\ loc' = [loc EXCEPT ![p] = l]
  /\ ret' = [ret EXCEPT ![p] = NoRet]

Return(p, track, r) ==
  /\ pc' = [pc EXCEPT ![p] = "idle"]
  /\ loc' = [loc EXCEPT ![p] = NoLoc]
  /\ ret' = [ret EXCEPT ![p] = IF track THEN r ELSE NoRet]

(***************************************************************************)
(* insertUser(data)                                                        *)
(***************************************************************************)
\* A faulty lookup: it does not look the email up.
ExistingId_PhoneOnly(em, ph, email, phone) ==
  IF phone # None /\ ph[phone] # None THEN ph[phone] ELSE None

\* The id the insert script finds bound to the caller's email, else to its
\* phone; None when neither is bound.
ExistingId(em, ph, email, phone) ==
  IF email # None /\ em[email] # None THEN em[email]
  ELSE IF phone # None /\ ph[phone] # None THEN ph[phone]
  ELSE None

\* A faulty limit check: it lets one member too many in.
AtLimit_Above(l, limit) == Len(l) > limit

\* Whether the insert script refuses a new member.
AtLimit(l, limit) == Len(l) >= limit

Bind(map, key, id) == IF key # None THEN [map EXCEPT ![key] = id] ELSE map

\* The argument check, then the script.
InsertUserScript(p, email, phone, meta, track) ==
  /\ Begin(p)
  /\ LET l == [Args(track) EXCEPT !.email = email, !.phone = phone, !.meta = meta]
         old == ExistingId(emails, phones, email, phone)
     IN IF email = None /\ phone = None
        THEN /\ Return(p, track, Thrown("insertUser", "Either email or phone must be provided"))
             /\ UNCHANGED <<storeVars, nextId>>
        ELSE IF old # None
        THEN /\ Goto(p, "ins_hset",
                     [l EXCEPT !.id = old, !.pos = IndexOf(list, old), !.flag = TRUE])
             /\ UNCHANGED <<storeVars, nextId>>
        ELSE IF AtLimit(list, lengthLimit)
        THEN /\ Return(p, track, Thrown("insertUser", "Waitlist is full"))
             /\ UNCHANGED <<storeVars, nextId>>
        ELSE /\ nextId <= MaxIds
             /\ list' = RPush(list, nextId)
             /\ emails' = Bind(emails, email, nextId)
             /\ phones' = Bind(phones, phone, nextId)
             /\ nextId' = nextId + 1
             /\ Goto(p, "ins_hset",
                     [l EXCEPT !.id = nextId, !.pos = Len(list) + 1, !.flag = FALSE])
             /\ UNCHANGED <<users, signedUp, lock, scores, codeVars>>
  /\ UNCHANGED mgrVars

\* The record insertUser writes after its script, for a new member and for
\* an existing one alike.
InsertedRecord(l) == Rec(l.email, l.phone, l.meta)

InsertUserHset(p) ==
  /\ pc[p] = "ins_hset"
  /\ users' = [users EXCEPT ![loc[p].id] = InsertedRecord(loc[p])]
  /\ Return(p, loc[p].track, Inserted("insertUser", loc[p]))
  /\ UNCHANGED <<listVars, emails, phones, signedUp, codeVars, mgrVars, nextId, calls>>

(***************************************************************************)
(* attachEmail(id, email), attachPhone(id, phone)                          *)
(***************************************************************************)
\* isUserSignedUp(id).
AttachEmailSigned(p, id, email, track) ==
  /\ Begin(p)
  /\ IF id \in signedUp
     THEN Return(p, track, [Thrown("attachEmail", "Cannot attach email to signed up user")
                              EXCEPT !.id = id, !.email = email])
     ELSE Goto(p, "ae_script", [Args(track) EXCEPT !.id = id, !.email = email])
  /\ UNCHANGED <<storeVars, mgrVars, nextId>>

\* A faulty attach script: it does not look whether the key is bound.
AttachOk_NoBoundCheck(map, key, id) == users[id].ex

\* Whether the attach script binds key to id in map.
AttachOk(map, key, id) == map[key] = None /\ users[id].ex

AttachEmailScript(p) ==
  /\ pc[p] = "ae_script"
  /\ LET l == loc[p]
     IN IF AttachOk(emails, l.email, l.id)
        THEN /\ emails' = [emails EXCEPT ![l.email] = l.id]
             /\ Goto(p, "ae_hget", l)
        ELSE /\ Return(p, l.track, [Result("attachEmail", FALSE) EXCEPT !.id = l.id, !.email = l.email])
             /\ UNCHANGED emails
  /\ UNCHANGED <<listVars, users, phones, signedUp, codeVars, mgrVars, nextId, calls>>

\* JSON.parse(hget(users, id) || '{}').
AttachEmailHget(p) ==
  /\ pc[p] = "ae_hget"
  /\ Goto(p, "ae_hset", [loc[p] EXCEPT !.rec = users[loc[p].id]])
  /\ UNCHANGED <<storeVars, mgrVars, nextId, calls>>

AttachEmailHset(p) ==
  /\ pc[p] = "ae_hset"
  /\ users' = [users EXCEPT ![loc[p].id] =
                 [loc[p].rec EXCEPT !.ex = TRUE, !.email = loc[p].email]]
  /\ Return(p, loc[p].track,
            [Result("attachEmail", TRUE) EXCEPT !.id = loc[p].id, !.email = loc[p].email])
  /\ UNCHANGED <<listVars, emails, phones, signedUp, codeVars, mgrVars, nextId, calls>>

AttachPhoneSigned(p, id, phone, track) ==
  /\ Begin(p)
  /\ IF id \in signedUp
     THEN Return(p, track, [Thrown("attachPhone", "Cannot attach phone to signed up user")
                              EXCEPT !.id = id, !.phone = phone])
     ELSE Goto(p, "ap_script", [Args(track) EXCEPT !.id = id, !.phone = phone])
  /\ UNCHANGED <<storeVars, mgrVars, nextId>>

AttachPhoneScript(p) ==
  /\ pc[p] = "ap_script"
  /\ LET l == loc[p]
     IN IF AttachOk(phones, l.phone, l.id)
        THEN /\ phones' = [phones EXCEPT ![l.phone] = l.id]
             /\ Goto(p, "ap_hget", l)
        ELSE /\ Return(p, l.track, [Result("attachPhone", FALSE) EXCEPT !.id = l.id, !.phone = l.phone])
             /\ UNCHANGED phones
  /\ UNCHANGED <<listVars, users, emails, signedUp, codeVars, mgrVars, nextId, calls>>

AttachPhoneHget(p) ==
  /\ pc[p] = "ap_hget"
  /\ Goto(p, "ap_hset", [loc[p] EXCEPT !.rec = users[loc[p].id]])
  /\ UNCHANGED <<storeVars, mgrVars, nextId, calls>>

AttachPhoneHset(p) ==
  /\ pc[p] = "ap_hset"
  /\ users' = [users EXCEPT ![loc[p].id] =
                 [loc[p].rec EXCEPT !.ex = TRUE, !.phone = loc[p].phone]]
  /\ Return(p, loc[p].track,
            [Result("attachPhone", TRUE) EXCEPT !.id = loc[p].id, !.phone = loc[p].phone])
  /\ UNCHANGED <<listVars, emails, phones, signedUp, codeVars, mgrVars, nextId, calls>>

(***************************************************************************)
(* moveUser(id, targetPosition)                                            *)
(***************************************************************************)
\* isUserSignedUp(id), the first command of the Promise.all.
MoveUserSigned(p, id, target, track) ==
  /\ Begin(p)
  /\ Goto(p, "mv_pos",
          [Args(track) EXCEPT !.id = id, !.target = target,
                              !.flag = (id \in signedUp),
                              !.snap = IF track THEN list ELSE <<>>])
  /\ UNCHANGED <<storeVars, mgrVars, nextId>>

\* A faulty gate: it lets signed up members by.
MoveGate_NoSigned(isSignedUp, currentPos, target, cutoff) ==
  IF currentPos <= cutoff THEN "Cannot move user that is within signup cutoff"
  ELSE IF target <= cutoff THEN "Cannot move user to position at or above signup cutoff"
  ELSE ""

\* A faulty gate: it does not look at the current position.
MoveGate_NoCurrent(isSignedUp, currentPos, target, cutoff) ==
  IF isSignedUp THEN "Cannot move user that has already signed up"
  ELSE IF target <= cutoff THEN "Cannot move user to position at or above signup cutoff"
  ELSE ""

\* The error the signup gate of moveUser throws, "" when it lets the call by.
MoveGate(isSignedUp, currentPos, target, cutoff) ==
  IF isSignedUp THEN "Cannot move user that has already signed up"
  ELSE IF currentPos <= cutoff THEN "Cannot move user that is within signup cutoff"
  ELSE IF target <= cutoff THEN "Cannot move user to position at or above signup cutoff"
  ELSE ""

\* getPosition(id), then the three checks.
MoveUserPos(p) ==
  /\ pc[p] = "mv_pos"
  /\ LET l == loc[p]
         gate == MoveGate(l.flag, IndexOf(list, l.id), l.target, signupCutoff)
     IN IF gate # ""
        THEN Return(p, l.track,
                    [Thrown("moveUser", gate) EXCEPT !.id = l.id, !.pos = l.target])
        ELSE Goto(p, "mv_script",
                  [l EXCEPT !.pos = IndexOf(list, l.id), !.attempts = MoveAttempts])
  /\ UNCHANGED <<storeVars, mgrVars, nextId, calls>>

\* A faulty move script: it leaves an id that is not in the list out.
MoveScript_PresentOnly(l, id, targetPos) ==
  LET listLen == Len(l)
      removed == LRem1(l, id)
      pivot == LIndex(removed, targetPos - 1)
  IN IF listLen = 0 \/ targetPos < 1 \/ targetPos > listLen + 1 \/ IndexOf(l, id) = 0
     THEN [list |-> l, res |-> 0]
     ELSE IF targetPos = 1 THEN [list |-> LPush(removed, id), res |-> 1]
     ELSE IF targetPos > listLen THEN [list |-> RPush(removed, id), res |-> 1]
     ELSE IF pivot = None THEN [list |-> removed, res |-> 0]
     ELSE [list |-> LInsertBefore(removed, pivot, id), res |-> 1]

\* A faulty move script: the pivot is the element at targetPos, one too far.
MoveScript_PivotAfter(l, id, targetPos) ==
  LET listLen == Len(l)
      removed == LRem1(l, id)
      pivot == LIndex(removed, targetPos)
  IN IF listLen = 0 \/ targetPos < 1 \/ targetPos > listLen + 1
     THEN [list |-> l, res |-> 0]
     ELSE IF targetPos = 1 THEN [list |-> LPush(removed, id), res |-> 1]
     ELSE IF targetPos > listLen THEN [list |-> RPush(removed, id), res |-> 1]
     ELSE IF pivot = None THEN [list |-> removed, res |-> 0]
     ELSE [list |-> LInsertBefore(removed, pivot, id), res |-> 1]

\* A faulty move script: no upper bound on targetPos.
MoveScript_NoUpperBound(l, id, targetPos) ==
  LET listLen == Len(l)
      removed == LRem1(l, id)
      pivot == LIndex(removed, targetPos - 1)
  IN IF listLen = 0 \/ targetPos < 1
     THEN [list |-> l, res |-> 0]
     ELSE IF targetPos = 1 THEN [list |-> LPush(removed, id), res |-> 1]
     ELSE IF targetPos > listLen THEN [list |-> RPush(removed, id), res |-> 1]
     ELSE IF pivot = None THEN [list |-> removed, res |-> 0]
     ELSE [list |-> LInsertBefore(removed, pivot, id), res |-> 1]

\* What the move script does to the list once it holds the lock, and the
\* value it returns.
MoveScript(l, id, targetPos) ==
  LET listLen == Len(l)
      removed == LRem1(l, id)
      pivot == LIndex(removed, targetPos - 1)
  IN IF listLen = 0 \/ targetPos < 1 \/ targetPos > listLen + 1
     THEN [list |-> l, res |-> 0]
     ELSE IF targetPos = 1 THEN [list |-> LPush(removed, id), res |-> 1]
     ELSE IF targetPos > listLen THEN [list |-> RPush(removed, id), res |-> 1]
     ELSE IF pivot = None THEN [list |-> removed, res |-> 0]
     ELSE [list |-> LInsertBefore(removed, pivot, id), res |-> 1]

\* A faulty script: the invalid-target path returns without its DEL.
LockReleased_NotOnInvalid(l, id, targetPos) ==
  ~(Len(l) = 0 \/ targetPos < 1 \/ targetPos > Len(l) + 1)

\* Whether the path the move script takes deletes the lock before it
\* returns: the invalid-target path, the missing-pivot path and the end of
\* the script each call DEL.
LockReleased(l, id, targetPos) ==
  LET listLen == Len(l)
      pivot == LIndex(LRem1(l, id), targetPos - 1)
  IN IF listLen = 0 \/ targetPos < 1 \/ targetPos > listLen + 1 THEN TRUE
     ELSE IF targetPos = 1 \/ targetPos > listLen THEN TRUE
     ELSE IF pivot = None THEN TRUE
     ELSE TRUE

\* A faulty retry loop: it gives up after the first failed attempt.
AttemptsLeft_None(attempts) == 0

\* The attempts left after a failed one.
AttemptsLeft(attempts) == attempts - 1

\* The outcome of moveUser; id and pos repeat the call's arguments.
Moved(l, ok) == [Result("moveUser", ok) EXCEPT !.id = l.id, !.pos = l.target]

\* One pass of the retry loop: the script, then the loop's bookkeeping.  The
\* script takes the lock with SET NX PX, returns 0 when it is held, and
\* deletes it before it returns on the paths LockReleased says.
MoveUserAttempt(p) ==
  /\ pc[p] = "mv_script"
  /\ LET l == loc[p]
         out == IF lock THEN [list |-> list, res |-> 0]
                ELSE MoveScript(list, l.id, l.target)
     IN /\ list' = out.list
        /\ lock' = IF lock THEN lock ELSE ~LockReleased(list, l.id, l.target)
        /\ IF out.res = 1 THEN Return(p, l.track, Moved(l, TRUE))
           ELSE IF AttemptsLeft(l.attempts) > 0
           THEN Goto(p, "mv_script", [l EXCEPT !.attempts = AttemptsLeft(l.attempts)])
           ELSE Return(p, l.track, Moved(l, FALSE))
  /\ UNCHANGED <<scores, userVars, signedUp, codeVars, mgrVars, nextId, calls>>

(***************************************************************************)
(* deleteUser(id)                                                          *)
(***************************************************************************)
Unbind(map, key) == IF key # None THEN [map EXCEPT ![key] = None] ELSE map

\* The delete script, run for the method op, and the method's outcome; id
\* repeats the script's argument.
DeleteScript(p, id, track, op) ==
  LET data == users[id]
  IN IF ~data.ex
     THEN /\ Return(p, track, [Result(op, FALSE) EXCEPT !.id = id])
          /\ UNCHANGED storeVars
     ELSE IF id \in signedUp
     THEN /\ Return(p, track,
                    [Thrown(op, "Cannot delete user that has already signed up")
                       EXCEPT !.id = id])
          /\ UNCHANGED storeVars
     ELSE /\ list' = LRem1(list, id)
          /\ users' = [users EXCEPT ![id] = NoRec]
          /\ emails' = Unbind(emails, data.email)
          /\ phones' = Unbind(phones, data.phone)
          /\ Return(p, track, [Result(op, TRUE) EXCEPT !.id = id])
          /\ UNCHANGED <<signedUp, lock, scores, codeVars>>

DeleteUser(p, id, track) ==
  /\ Begin(p)
  /\ DeleteScript(p, id, track, "deleteUser")
  /\ UNCHANGED <<mgrVars, nextId>>

\* deleteUserByEmail(email): getEmailMapping, then deleteUser.
DeleteUserByEmailMapping(p, email, track) ==
  /\ Begin(p)
  /\ IF emails[email] = None
     THEN Return(p, track, Result("deleteUserByEmail", FALSE))
     ELSE Goto(p, "dbe_script",
               [Args(track) EXCEPT !.id = emails[email], !.email = email])
  /\ UNCHANGED <<storeVars, mgrVars, nextId>>

DeleteUserByEmailScript(p) ==
  /\ pc[p] = "dbe_script"
  /\ DeleteScript(p, loc[p].id, loc[p].track, "deleteUserByEmail")
  /\ UNCHANGED <<mgrVars, nextId, calls>>

\* deleteUserByPhone(phone): getPhoneMapping, then deleteUser.
DeleteUserByPhoneMapping(p, phone, track) ==
  /\ Begin(p)
  /\ IF phones[phone] = None
     THEN Return(p, track, Result("deleteUserByPhone", FALSE))
     ELSE Goto(p, "dbp_script",
               [Args(track) EXCEPT !.id = phones[phone], !.phone = phone])
  /\ UNCHANGED <<storeVars, mgrVars, nextId>>

DeleteUserByPhoneScript(p) ==
  /\ pc[p] = "dbp_script"
  /\ DeleteScript(p, loc[p].id, loc[p].track, "deleteUserByPhone")
  /\ UNCHANGED <<mgrVars, nextId, calls>>

(***************************************************************************)
(* createInviteCode(userId, minBumpPositions)                              *)
(***************************************************************************)
\* isUserSignedUp(userId).
CreateInviteCodeSigned(p, userId, minBump, track) ==
  /\ Begin(p)
  /\ IF userId \in signedUp
     THEN Return(p, track, Thrown("createInviteCode", "Signed up users cannot create invite codes"))
     ELSE Goto(p, "cic_script", [Args(track) EXCEPT !.id = userId, !.bump = minBump])
  /\ UNCHANGED <<storeVars, mgrVars, nextId>>

\* A faulty limit check: it lets one code too many by.
CodeLimitReached_Above(count, limit) == count > limit

\* Whether the script refuses another code to a creator that has count codes.
CodeLimitReached(count, limit) == count >= limit

\* The script: the limit check, then a generated code that is not taken.  The
\* generator's draws are any code of Codes that is free.
CreateInviteCodeScript(p) ==
  /\ pc[p] = "cic_script"
  /\ LET l == loc[p]
     IN IF CodeLimitReached(userCodeCount[l.id], inviteCodeLimit)
        THEN /\ Return(p, l.track, Thrown("createInviteCode", "Invite code limit reached"))
             /\ UNCHANGED codeVars
        ELSE \E c \in Codes :
               /\ inviteCodes[c] = None
               /\ inviteCodes' = [inviteCodes EXCEPT ![c] = l.id]
               /\ codeBumps' = [codeBumps EXCEPT ![c] = l.bump]
               /\ userCodeSets' = [userCodeSets EXCEPT ![l.id] = @ \cup {c}]
               /\ userCodeCount' = [userCodeCount EXCEPT ![l.id] = @ + 1]
               /\ Return(p, l.track, [Result("createInviteCode", TRUE) EXCEPT !.id = c])
               /\ UNCHANGED <<usedCodes, usedReverse, commVars>>
  /\ UNCHANGED <<listVars, userVars, signedUp, mgrVars, nextId, calls>>

(***************************************************************************)
(* useInviteCode(code, userData, bumpPositions)                            *)
(***************************************************************************)
\* The error useInviteCode throws for code.
UseThrown(code, msg) == [Thrown("useInviteCode", msg) EXCEPT !.code = code]

\* getInviteCodeCreator(code).
UseInviteCodeCreator(p, code, email, phone, meta, bump, track) ==
  /\ Begin(p)
  /\ IF inviteCodes[code] = None
     THEN Return(p, track, UseThrown(code, "Invalid invite code"))
     ELSE Goto(p, "uic_pos",
               [Args(track) EXCEPT !.code = code, !.creator = inviteCodes[code],
                                   !.email = email, !.phone = phone,
                                   !.meta = meta, !.bump = bump])
  /\ UNCHANGED <<storeVars, mgrVars, nextId>>

\* getPosition(creatorId).
UseInviteCodePos(p) ==
  /\ pc[p] = "uic_pos"
  /\ IF IndexOf(list, loc[p].creator) = 0
     THEN Return(p, loc[p].track, UseThrown(loc[p].code, "Invite code creator no longer in waitlist"))
     ELSE Goto(p, "uic_signed", loc[p])
  /\ UNCHANGED <<storeVars, mgrVars, nextId, calls>>

\* isUserSignedUp(creatorId), then the check of the contact data.
UseInviteCodeSigned(p) ==
  /\ pc[p] = "uic_signed"
  /\ IF loc[p].creator \in signedUp
     THEN Return(p, loc[p].track, UseThrown(loc[p].code, "Cannot use invite code from signed up user"))
     ELSE IF loc[p].email = None /\ loc[p].phone = None
     THEN Return(p, loc[p].track, UseThrown(loc[p].code, "Either email or phone must be provided"))
     ELSE Goto(p, "uic_script", loc[p])
  /\ UNCHANGED <<storeVars, mgrVars, nextId, calls>>

\* A faulty target: the bump the caller asks for, whatever the code's minimum.
CreatorTarget_Requested(creatorPos, requestedBump, minBump) ==
  IF creatorPos - requestedBump >= 1 THEN creatorPos - requestedBump ELSE 1

\* The position the script moves the creator to.
CreatorTarget(creatorPos, requestedBump, minBump) ==
  Max(1, creatorPos - Max(requestedBump, minBump))

\* The script's move of the creator, after the new id was pushed: the list,
\* and whether LINSERT got a pivot (a nil pivot aborts the script).
MoveCreator(l, creatorId, targetPos) ==
  LET removed == LRem1(l, creatorId)
      pivot == LIndex(removed, targetPos - 1)
  IN IF targetPos = 1 THEN [list |-> LPush(removed, creatorId), ok |-> TRUE]
     ELSE IF pivot = None THEN [list |-> removed, ok |-> FALSE]
     ELSE [list |-> LInsertBefore(removed, pivot, creatorId), ok |-> TRUE]

\* A faulty check: it does not look whether the code was used.
UseInviteCodeRefusal_NoUsedCheck(code, email, phone) ==
  IF inviteCodes[code] = None THEN "Invalid invite code"
  ELSE IF Len(list) >= lengthLimit THEN "Waitlist is full"
  ELSE IF email # None /\ emails[email] # None THEN "Email already exists"
  ELSE IF phone # None /\ phones[phone] # None THEN "Phone already exists"
  ELSE ""

\* The error the script returns before it writes anything, "" when none.
UseInviteCodeRefusal(code, email, phone) ==
  IF inviteCodes[code] = None THEN "Invalid invite code"
  ELSE IF AtLimit(list, lengthLimit) THEN "Waitlist is full"
  ELSE IF usedCodes[code] # None THEN "Invite code already used"
  ELSE IF email # None /\ emails[email] # None THEN "Email already exists"
  ELSE IF phone # None /\ phones[phone] # None THEN "Phone already exists"
  ELSE ""

UseInviteCodeScript(p) ==
  /\ pc[p] = "uic_script"
  /\ LET l == loc[p]
         refusal == UseInviteCodeRefusal(l.code, l.email, l.phone)
         creatorId == inviteCodes[l.code]
         creatorPos == IndexOf(list, creatorId)
         minBump == codeBumps[l.code]
         moved == MoveCreator(RPush(list, nextId), creatorId,
                              CreatorTarget(creatorPos, l.bump, minBump))
     IN IF refusal # ""
        THEN /\ Return(p, l.track, UseThrown(l.code, refusal))
             /\ UNCHANGED <<storeVars, nextId>>
        ELSE /\ nextId <= MaxIds
             /\ nextId' = nextId + 1
             /\ IF creatorPos = 0
                THEN \* the code is already marked used
                     /\ usedCodes' = [usedCodes EXCEPT ![l.code] = nextId]
                     /\ Return(p, l.track, UseThrown(l.code, "Creator not found in waitlist"))
                     /\ UNCHANGED <<list, emails, phones, usedReverse>>
                ELSE /\ usedCodes' = [usedCodes EXCEPT ![l.code] = nextId]
                     /\ list' = moved.list
                     /\ emails' = Bind(emails, l.email, nextId)
                     /\ phones' = Bind(phones, l.phone, nextId)
                     /\ IF moved.ok
                        THEN /\ usedReverse' = [usedReverse EXCEPT ![nextId] = l.code]
                             /\ Goto(p, "uic_hset", [l EXCEPT !.id = nextId])
                        ELSE /\ Return(p, l.track, UseThrown(l.code, "script error"))
                             /\ UNCHANGED usedReverse
             /\ UNCHANGED <<users, signedUp, lock, scores, inviteCodes, codeBumps,
                            userCodeCount, userCodeSets, commVars>>
  /\ UNCHANGED <<mgrVars, calls>>

UseInviteCodeHset(p) ==
  /\ pc[p] = "uic_hset"
  /\ users' = [users EXCEPT ![loc[p].id] = InsertedRecord(loc[p])]
  /\ Goto(p, "uic_getpos", loc[p])
  /\ UNCHANGED <<listVars, emails, phones, signedUp, codeVars, mgrVars, nextId, calls>>

\* getPosition(id) for the result.
UseInviteCodeGetPos(p) ==
  /\ pc[p] = "uic_getpos"
  /\ Return(p, loc[p].track,
            [Inserted("useInviteCode", [loc[p] EXCEPT !.pos = IndexOf(list, loc[p].id)])
               EXCEPT !.code = loc[p].code])
  /\ UNCHANGED <<storeVars, mgrVars, nextId, calls>>

(***************************************************************************)
(* getPositionAfterInviteCodeUse(code)                                     *)
(***************************************************************************)
\* A faulty preview: it does not look whether the code was used.
PositionAfterUse_Used(code) ==
  IF inviteCodes[code] = None THEN None
  ELSE IF IndexOf(list, inviteCodes[code]) = 0 THEN None
  ELSE Max(1, IndexOf(list, inviteCodes[code]) - codeBumps[code])

\* What the script returns, None for nil.
PositionAfterUse(code) ==
  IF inviteCodes[code] = None THEN None
  ELSE IF usedCodes[code] # None THEN None
  ELSE IF IndexOf(list, inviteCodes[code]) = 0 THEN None
  ELSE Max(1, IndexOf(list, inviteCodes[code]) - codeBumps[code])

GetPositionAfterInviteCodeUse(p, code, track) ==
  /\ Begin(p)
  /\ Return(p, track,
            [Result("getPositionAfterInviteCodeUse", PositionAfterUse(code) # None)
               EXCEPT !.pos = PositionAfterUse(code), !.code = code])
  /\ UNCHANGED <<storeVars, mgrVars, nextId>>

(***************************************************************************)
(* The signup gate and the list limit                                      *)
(***************************************************************************)
\* A faulty assignment: the cutoff is stored as it came.
ClampCutoff_AsGiven(cutoff, length) == cutoff

\* The cutoff setSignupCutoff stores.
ClampCutoff(cutoff, length) == IF cutoff > length THEN length ELSE cutoff

\* setSignupCutoff(cutoff): LLEN, then the assignment.
SetSignupCutoff(p, cutoff, track) ==
  /\ Begin(p)
  /\ IF cutoff < 0 - 1
     THEN /\ Return(p, track, [Thrown("setSignupCutoff", "Signup cutoff cannot be less than -1")
                                 EXCEPT !.arg = cutoff])
          /\ UNCHANGED signupCutoff
     ELSE /\ signupCutoff' = ClampCutoff(cutoff, Len(list))
          /\ Return(p, track, [Result("setSignupCutoff", TRUE) EXCEPT !.arg = cutoff])
  /\ UNCHANGED <<storeVars, lengthLimit, inviteCodeLimit, nextId>>

\* A faulty eligibility check: an id that is not in the list passes.
CanMark_NoPosition(l, set, id, cutoff) == IndexOf(l, id) <= cutoff /\ id \notin set

\* A faulty eligibility check: the cutoff is not looked at.
CanMark_NoCutoff(l, set, id, cutoff) == IndexOf(l, id) # 0 /\ id \notin set

\* Whether the markUserAsSignedUp script adds id to the set.
CanMark(l, set, id, cutoff) ==
  /\ IndexOf(l, id) # 0
  /\ IndexOf(l, id) <= cutoff
  /\ id \notin set

MarkUserAsSignedUp(p, id, track) ==
  /\ Begin(p)
  /\ IF CanMark(list, signedUp, id, signupCutoff)
     THEN /\ signedUp' = signedUp \cup {id}
          /\ Return(p, track, [Result("markUserAsSignedUp", TRUE) EXCEPT !.id = id])
     ELSE /\ Return(p, track, [Result("markUserAsSignedUp", FALSE) EXCEPT !.id = id])
          /\ UNCHANGED signedUp
  /\ UNCHANGED <<listVars, userVars, codeVars, mgrVars, nextId>>

\* canUserSignUp(id): the getPosition script; the SISMEMBER is the next step.
CanUserSignUpPos(p, id, track) ==
  /\ Begin(p)
  /\ Goto(p, "cus_signed", [Args(track) EXCEPT !.id = id, !.pos = IndexOf(list, id)])
  /\ UNCHANGED <<storeVars, mgrVars, nextId>>

\* canUserSignUp: the SISMEMBER, then the comparison with the cutoff.
CanUserSignUpSigned(p) ==
  /\ pc[p] = "cus_signed"
  /\ LET l == loc[p]
     IN Return(p, l.track,
               [Result("canUserSignUp",
                       l.pos > 0 /\ l.pos <= signupCutoff /\ l.id \notin signedUp)
                  EXCEPT !.id = l.id])
  /\ UNCHANGED <<storeVars, mgrVars, nextId, calls>>

(***************************************************************************)
(* Community codes                                                         *)
(***************************************************************************)
\* createCommunityCode(code, maxUses): the argument check and the HEXISTS.
CreateCommunityCodeExists(p, code, maxUses, track) ==
  /\ Begin(p)
  /\ IF maxUses < 1
     THEN Return(p, track, Thrown("createCommunityCode", "Maximum uses must be at least 1"))
     ELSE IF codes[code].ex
          THEN Return(p, track, [Result("createCommunityCode", FALSE) EXCEPT !.code = code])
          ELSE Goto(p, "ccc_hset", [Args(track) EXCEPT !.code = code, !.maxUses = maxUses])
  /\ UNCHANGED <<storeVars, mgrVars, nextId>>

\* createCommunityCode: the HSET of {maxUses, currentUses: 0}.
CreateCommunityCodeHset(p) ==
  /\ pc[p] = "ccc_hset"
  /\ LET l == loc[p]
     IN /\ codes' = [codes EXCEPT ![l.code] =
                      [ex |-> TRUE, maxUses |-> l.maxUses, currentUses |-> 0]]
        /\ Return(p, l.track, [Result("createCommunityCode", TRUE) EXCEPT !.code = l.code])
  /\ UNCHANGED <<listVars, userVars, signedUp, inviteCodes, codeBumps, usedCodes,
                 usedReverse, userCodeCount, userCodeSets, codeUses, codeUsers,
                 mgrVars, nextId, calls>>

\* A faulty limit check: it refuses the use that reaches maxUses.
OverLimit_AtLimit(newUses, maxUses) == newUses >= maxUses

\* Whether the script takes the increment back and refuses the use.
OverLimit(newUses, maxUses) == newUses > maxUses

\* A faulty record of a use: the phone is not added to the usage set.
UsageEntries_EmailOnly(email, phone) == {<<"email", e>> : e \in {email} \ {None}}

\* The members of a usage set: emails and phones are kept apart by a tag.
UsageEntries(email, phone) ==
  {<<"email", e>> : e \in {email} \ {None}} \cup {<<"phone", f>> : f \in {phone} \ {None}}

\* What a failing useCommunityCode call ends with: the script's error message.
CommunityUseFailed(code, email, phone, msg) ==
  [Thrown("useCommunityCode", msg) EXCEPT !.code = code, !.email = email, !.phone = phone]

\* What a successful useCommunityCode call returns: true.
CommunityUsed(code, email, phone) ==
  [Result("useCommunityCode", TRUE) EXCEPT !.code = code, !.email = email, !.phone = phone]

\* A faulty lookup of the member to sign up: the phone's member comes first.
CommunityMember_PhoneFirst(email, phone) ==
  IF phone # None /\ phones[phone] # None THEN phones[phone]
  ELSE IF email # None THEN emails[email] ELSE None

\* The member the script signs up: the one the email is bound to, and the
\* one the phone is bound to when there is no such email.
CommunityMember(email, phone) ==
  IF email # None /\ emails[email] # None THEN emails[email]
  ELSE IF phone # None THEN phones[phone] ELSE None

\* useCommunityCode(code, userData): the argument check, then one script.  In
\* each refusal the counter's increment is taken back in the same script,
\* so the counter is left as it was.
UseCommunityCode(p, code, email, phone, track) ==
  /\ Begin(p)
  /\ IF email = None /\ phone = None
     THEN /\ Return(p, track, CommunityUseFailed(code, email, phone, "Either email or phone must be provided"))
          /\ UNCHANGED storeVars
     ELSE IF ~codes[code].ex
     THEN /\ Return(p, track, CommunityUseFailed(code, email, phone, "Invalid code"))
          /\ UNCHANGED storeVars
     ELSE LET newUses == codeUses[code] + 1
              existingId == CommunityMember(email, phone)
          IN IF OverLimit(newUses, codes[code].maxUses)
             THEN /\ Return(p, track, CommunityUseFailed(code, email, phone, "Code has reached usage limit"))
                  /\ UNCHANGED storeVars
             ELSE IF email # None /\ <<"email", email>> \in codeUsers[code]
             THEN /\ Return(p, track, CommunityUseFailed(code, email, phone, "Code already used by this email"))
                  /\ UNCHANGED storeVars
             ELSE IF phone # None /\ <<"phone", phone>> \in codeUsers[code]
             THEN /\ Return(p, track, CommunityUseFailed(code, email, phone, "Code already used by this phone"))
                  /\ UNCHANGED storeVars
             ELSE /\ codeUses' = [codeUses EXCEPT ![code] = newUses]
                  /\ codes' = [codes EXCEPT ![code].currentUses = newUses]
                  /\ codeUsers' = [codeUsers EXCEPT ![code] = @ \cup UsageEntries(email, phone)]
                  /\ signedUp' = IF existingId # None THEN signedUp \cup {existingId}
                                 ELSE signedUp
                  /\ Return(p, track, CommunityUsed(code, email, phone))
                  /\ UNCHANGED <<listVars, userVars, inviteCodes, codeBumps, usedCodes,
                                 usedReverse, userCodeCount, userCodeSets>>
  /\ UNCHANGED <<mgrVars, nextId>>

\* getCommunityCodeInfo(code).currentUses: the counter of waitlist:codes:uses,
\* 0 when it has no field for the code.
CurrentUses(code) == codeUses[code]

\* A faulty cleanup: the counter is kept.
ClearedUses_Kept(uses, code) == uses

\* The counter hash after the script's HDEL of the code's field.
ClearedUses(uses, code) == [uses EXCEPT ![code] = 0]

\* deleteCommunityCode(code): one script.
DeleteCommunityCode(p, code, track) ==
  /\ Begin(p)
  /\ IF ~codes[code].ex
     THEN /\ Return(p, track, [Result("deleteCommunityCode", FALSE) EXCEPT !.code = code])
          /\ UNCHANGED storeVars
     ELSE /\ codes' = [codes EXCEPT ![code] = NoCode]
          /\ codeUses' = ClearedUses(codeUses, code)
          /\ codeUsers' = [codeUsers EXCEPT ![code] = {}]
          /\ Return(p, track, [Result("deleteCommunityCode", TRUE) EXCEPT !.code = code])
          /\ UNCHANGED <<listVars, userVars, signedUp, inviteCodes, codeBumps, usedCodes,
                         usedReverse, userCodeCount, userCodeSets>>
  /\ UNCHANGED <<mgrVars, nextId>>

\* setInviteCodeLimit(limit).
SetInviteCodeLimit(p, limit, track) ==
  /\ Begin(p)
  /\ IF limit < 0
     THEN /\ Return(p, track, Thrown("setInviteCodeLimit", "Invite code limit cannot be negative"))
          /\ UNCHANGED inviteCodeLimit
     ELSE /\ inviteCodeLimit' = limit
          /\ Return(p, track, Result("setInviteCodeLimit", TRUE))
  /\ UNCHANGED <<storeVars, lengthLimit, signupCutoff, nextId>>

\* setListLimit(limit).
SetListLimit(p, limit, track) ==
  /\ Begin(p)
  /\ IF limit < 0
     THEN /\ Return(p, track, Thrown("setListLimit", "Length limit cannot be negative"))
          /\ UNCHANGED lengthLimit
     ELSE /\ lengthLimit' = limit
          /\ Return(p, track, Result("setListLimit", TRUE))
  /\ UNCHANGED <<storeVars, inviteCodeLimit, signupCutoff, nextId>>

(***************************************************************************)
(* Spec: callers run their calls concurrently.                             *)
(***************************************************************************)
Contacts == {<<e, f>> : e \in Emails \cup {None}, f \in Phones \cup {None}}

Next ==
  \/ \E p \in Callers, c \in Contacts, m \in Metas :
       calls < MaxCalls /\ InsertUserScript(p, c[1], c[2], m, FALSE)
  \/ \E p \in Callers : InsertUserHset(p)
  \/ \E p \in Callers, id \in KnownIds, e \in Emails :
       calls < MaxCalls /\ AttachEmailSigned(p, id, e, FALSE)
  \/ \E p \in Callers : AttachEmailScript(p)
  \/ \E p \in Callers : AttachEmailHget(p)
  \/ \E p \in Callers : AttachEmailHset(p)
  \/ \E p \in Callers, id \in KnownIds, f \in Phones :
       calls < MaxCalls /\ AttachPhoneSigned(p, id, f, FALSE)
  \/ \E p \in Callers : AttachPhoneScript(p)
  \/ \E p \in Callers : AttachPhoneHget(p)
  \/ \E p \in Callers : AttachPhoneHset(p)
  \/ \E p \in Callers, id \in KnownIds, t \in TargetPositions :
       calls < MaxCalls /\ MoveUserSigned(p, id, t, FALSE)
  \/ \E p \in Callers : MoveUserPos(p)
  \/ \E p \in Callers : MoveUserAttempt(p)
  \/ \E p \in Callers, id \in KnownIds : calls < MaxCalls /\ DeleteUser(p, id, FALSE)
  \/ \E p \in Callers, id \in KnownIds, b \in BumpValues :
       calls < MaxCalls /\ CreateInviteCodeSigned(p, id, b, FALSE)
  \/ \E p \in Callers : CreateInviteCodeScript(p)
  \/ \E p \in Callers, c \in Codes, d \in Contacts, m \in Metas, b \in BumpValues :
       calls < MaxCalls /\ UseInviteCodeCreator(p, c, d[1], d[2], m, b, FALSE)
  \/ \E p \in Callers : UseInviteCodePos(p)
  \/ \E p \in Callers : UseInviteCodeSigned(p)
  \/ \E p \in Callers : UseInviteCodeScript(p)
  \/ \E p \in Callers : UseInviteCodeHset(p)
  \/ \E p \in Callers : UseInviteCodeGetPos(p)

Spec == Init /\ [][Next]_vars

(***************************************************************************)
(* SpecSeq: one caller makes its calls one after the other, and every     *)
(* call's outcome is recorded.                                             *)
(***************************************************************************)
Solo == CHOOSE p \in Procs : \A q \in Procs : p <= q

\* The targets a single caller tries: those of Spec, and one below them.
SeqTargets == TargetPositions \cup {0 - 1}

NextSeq ==
  \/ \E c \in Contacts, m \in Metas :
       calls < MaxSeqCalls /\ InsertUserScript(Solo, c[1], c[2], m, TRUE)
  \/ InsertUserHset(Solo)
  \/ \E id \in KnownIds, e \in Emails :
       calls < MaxSeqCalls /\ AttachEmailSigned(Solo, id, e, TRUE)
  \/ AttachEmailScript(Solo)
  \/ AttachEmailHget(Solo)
  \/ AttachEmailHset(Solo)
  \/ \E id \in KnownIds, f \in Phones :
       calls < MaxSeqCalls /\ AttachPhoneSigned(Solo, id, f, TRUE)
  \/ AttachPhoneScript(Solo)
  \/ AttachPhoneHget(Solo)
  \/ AttachPhoneHset(Solo)
  \/ \E id \in KnownIds, t \in SeqTargets :
       calls < MaxSeqCalls /\ MoveUserSigned(Solo, id, t, TRUE)
  \/ MoveUserPos(Solo)
  \/ MoveUserAttempt(Solo)
  \/ \E id \in KnownIds : calls < MaxSeqCalls /\ DeleteUser(Solo, id, TRUE)
  \/ \E c \in CutoffValues : calls < MaxSeqCalls /\ SetSignupCutoff(Solo, c, TRUE)
  \/ \E id \in KnownIds : calls < MaxSeqCalls /\ MarkUserAsSignedUp(Solo, id, TRUE)

SpecSeq == Init /\ [][NextSeq]_vars

(***************************************************************************)
(* Properties of the order and of the records.                             *)
(***************************************************************************)
Quiescent == \A p \in Procs : pc[p] = "idle"

\* The ids that have a stored record.
RecordIds == {i \in 1..Ghost : users[i].ex}

\* C1: whenever no operation is in flight, the ids in the order are exactly
\* the ids that have a stored record.
C1_OrderIsRecords == Quiescent => SeqToSet(list) = RecordIds

\* C2: the order never holds the same id twice, whatever calls of
\* insertUser, moveUser, useInviteCode and deleteUser run and interleave.
C2_NoDuplicateIds == NoDup(list)

\* A reposition has acted: members stand in another order than the one
\* they were appended in.
C2_Witness ==
  /\ Len(list) >= 2
  /\ SeqToSet(list) \subseteq Ids
  /\ \E i, j \in 1..Len(list) : i < j /\ list[i] > list[j]

\* C3: whenever no operation is in flight, every email (phone) index entry
\* names an id of the order whose record carries that email (phone), and no
\* two records carry the same email or the same phone.
C3_IndexMatchesRecords ==
  Quiescent =>
    /\ \A e \in Emails : emails[e] # None =>
          IndexOf(list, emails[e]) # 0 /\ users[emails[e]].email = e
    /\ \A f \in Phones : phones[f] # None =>
          IndexOf(list, phones[f]) # 0 /\ users[phones[f]].phone = f
    /\ \A i, j \in RecordIds : i # j =>
          /\ users[i].email # None => users[i].email # users[j].email
          /\ users[i].phone # None => users[i].phone # users[j].phone

(***************************************************************************)
(* Properties of single calls, made one after the other (SpecSeq).         *)
(***************************************************************************)
\* C5: an insertUser call whose email or phone is bound to a member leaves
\* the order, both indexes and the member's stored record as they were, in
\* its script and in the write that follows it.
C5_DuplicateInsertChangesNothing ==
  [][/\ (pc[Solo] = "idle" /\ pc'[Solo] = "ins_hset" /\ loc'[Solo].flag) =>
          <<list, users, emails, phones>>' = <<list, users, emails, phones>>
     /\ (pc[Solo] = "ins_hset" /\ loc[Solo].flag) =>
          <<list, users, emails, phones>>' = <<list, users, emails, phones>>
    ]_vars

\* A moveUser call of a member of the order to a target in [1, length + 1],
\* length being that of the order when the call started.
MoveInRange(l) ==
  /\ IndexOf(l.snap, l.id) # 0
  /\ l.target >= 1
  /\ l.target <= Len(l.snap) + 1

\* A moveUser call to a target below 1 or above length + 1.
MoveOutOfRange(l) == l.target < 1 \/ l.target > Len(l.snap) + 1

\* C6, as stated: a moveUser call the signup gate lets by, of a member to a
\* target in [1, length + 1], returns true; the member is then at the target
\* position, the other members keep their relative order, and the length is
\* unchanged.
C6_MoveReachesTarget ==
  [][(pc[Solo] = "mv_script" /\ pc'[Solo] = "idle" /\ MoveInRange(loc[Solo])) =>
       /\ ret'[Solo].ok
       /\ IndexOf(list', loc[Solo].id) = loc[Solo].target
       /\ LRem1(list', loc[Solo].id) = LRem1(loc[Solo].snap, loc[Solo].id)
       /\ Len(list') = Len(loc[Solo].snap)
    ]_vars

\* C6, amended: as above, but the member ends at min(target, length): at
\* the target for targets up to length, and last for target length + 1.
C6_MoveReachesTargetOrEnd ==
  [][(pc[Solo] = "mv_script" /\ pc'[Solo] = "idle" /\ MoveInRange(loc[Solo])) =>
       /\ ret'[Solo].ok
       /\ IndexOf(list', loc[Solo].id) = Min(loc[Solo].target, Len(loc[Solo].snap))
       /\ LRem1(list', loc[Solo].id) = LRem1(loc[Solo].snap, loc[Solo].id)
       /\ Len(list') = Len(loc[Solo].snap)
    ]_vars

\* The first member was moved to length + 1 and stands last.
C6_Witness ==
  /\ pc[Solo] = "idle"
  /\ ret[Solo].op = "moveUser" /\ ret[Solo].ok
  /\ ret[Solo].id = 1 /\ users[1].ex
  /\ Len(list) >= 2
  /\ ret[Solo].pos = Len(list) + 1
  /\ list[Len(list)] = 1

\* C7, as stated: a moveUser call to a target below 1 or above length + 1
\* never modifies the order, runs the move script at most MoveAttempts
\* times, and then returns false.
C7_OutOfRangeReturnsFalse ==
  [][(pc[Solo] \in {"mv_pos", "mv_script"} /\ MoveOutOfRange(loc[Solo])) =>
       /\ list' = list
       /\ pc[Solo] = "mv_script" => loc[Solo].attempts \in 1..MoveAttempts
       /\ pc'[Solo] = "idle" =>
            ret'[Solo].op = "moveUser" /\ ret'[Solo].err = "" /\ ~ret'[Solo].ok
    ]_vars

\* C7, amended: such a call never modifies the order; either the signup
\* gate throws before the move script runs, or the script runs exactly
\* MoveAttempts times and the call returns false.
C7_OutOfRangeFailsOrThrows ==
  [][(pc[Solo] \in {"mv_pos", "mv_script"} /\ MoveOutOfRange(loc[Solo])) =>
       /\ list' = list
       /\ pc[Solo] = "mv_script" => loc[Solo].attempts \in 1..MoveAttempts
       /\ pc'[Solo] = "idle" =>
            /\ ret'[Solo].op = "moveUser" /\ ~ret'[Solo].ok
            /\ \/ pc[Solo] = "mv_pos" /\ ret'[Solo].err # ""
               \/ /\ pc[Solo] = "mv_script" /\ ret'[Solo].err = ""
                  /\ loc[Solo].attempts = 1
    ]_vars

\* A member of an order of two was refused a move beyond length + 1.
C7_Witness ==
  /\ pc[Solo] = "idle"
  /\ ret[Solo].op = "moveUser" /\ ~ret[Solo].ok /\ ret[Solo].err = ""
  /\ Len(list) >= 2
  /\ IndexOf(list, ret[Solo].id) # 0
  /\ ret[Solo].pos > Len(list) + 1

\* The step of a deleteUser call that returns true.
Deleted == calls' = calls + 1 /\ ret'[Solo].op = "deleteUser" /\ ret'[Solo].ok

\* C9: deleteUser of the member at position p returns true; the id is then
\* at no position, members that stood behind p stand one position earlier
\* and members before p stand where they stood.
C9_DeleteShiftsFollowers ==
  [][(Deleted /\ IndexOf(list, ret'[Solo].id) # 0) =>
       LET id == ret'[Solo].id
           p == IndexOf(list, id)
       IN /\ IndexOf(list', id) = 0
          /\ \A m \in SeqToSet(list) \ {id} :
               IndexOf(list', m) =
                 IF IndexOf(list, m) > p THEN IndexOf(list, m) - 1
                 ELSE IndexOf(list, m)
    ]_vars

\* The member in the middle of three was deleted.
C9_Witness ==
  /\ ret[Solo].op = "deleteUser" /\ ret[Solo].ok /\ ret[Solo].id = 2
  /\ list = <<1, 3>>

\* C10: a deleteUser that returns true removes the member's record and
\* every email and phone index entry that names the id, and removes no
\* index entry that names another member.
C10_DeleteClearsOwnEntries ==
  [][Deleted =>
       LET id == ret'[Solo].id
       IN /\ ~users'[id].ex
          /\ \A e \in Emails : emails'[e] # id
          /\ \A f \in Phones : phones'[f] # id
          /\ \A e \in Emails : emails'[e] # emails[e] => emails[e] = id
          /\ \A f \in Phones : phones'[f] # phones[f] => phones[f] = id
    ]_vars

(***************************************************************************)
(* SpecDup: members join with other contact data, one call at a time; then *)
(* every caller makes one insertUser call, and all of these carry the same *)
(* email, or all the same phone, which no earlier call has bound.          *)
(***************************************************************************)
\* The contact data of the earlier members, and of the concurrent calls:
\* these carry the last email, the last phone, or both.
SetupContacts ==
  {c \in Contacts : c # <<None, None>> /\ c[1] # NumEmails /\ c[2] # NumPhones}

DupContacts ==
  {c \in Contacts : c # <<None, None>> /\ c[1] \in {None, NumEmails}
                                         /\ c[2] \in {None, NumPhones}}

\* The callers whose concurrent call has started, and the contact data
\* these calls carry.
DupStarted == {q \in Procs : loc[q].track \/ ret[q].op # ""}

DupCarried ==
  {IF ret[q].op # "" THEN <<ret[q].email, ret[q].phone>>
   ELSE <<loc[q].email, loc[q].phone>> : q \in DupStarted}

SameIdentity(S) ==
  \/ \A c \in S : c[1] = NumEmails
  \/ \A c \in S : c[2] = NumPhones

NextDup ==
  \/ \E p \in Procs, c \in SetupContacts, m \in Metas :
       /\ calls < MaxCalls
       /\ Quiescent
       /\ DupStarted = {}
       /\ InsertUserScript(p, c[1], c[2], m, FALSE)
  \/ \E p \in Procs, c \in DupContacts, m \in Metas :
       /\ ret[p].op = ""
       /\ \A q \in Procs : pc[q] = "idle" \/ loc[q].track
       /\ SameIdentity(DupCarried \cup {c})
       /\ InsertUserScript(p, c[1], c[2], m, TRUE)
  \/ \E p \in Procs : InsertUserHset(p)

SpecDup == Init /\ [][NextDup]_vars

\* The concurrent calls that have returned.
DupReturned == {p \in Procs : ret[p].op = "insertUser"}

\* C4: of the concurrent insertUser calls that carry the same unbound email
\* (or the same unbound phone), exactly one creates a member, every other
\* one reports that the member existed, all return the same id and the same
\* position, and the order has grown by exactly one.  No id is removed in
\* SpecDup and ids are handed out in turn, so the order held the ids below
\* the new member's before the calls.
C4_OneCallCreates ==
  (Quiescent /\ DupReturned # {}) =>
    \E w \in DupReturned :
      /\ ~ret[w].existed
      /\ \A q \in DupReturned \ {w} : ret[q].existed
      /\ \A q \in DupReturned :
           ret[q].err = "" /\ ret[q].id = ret[w].id /\ ret[q].pos = ret[w].pos
      /\ Len(list) = ret[w].id
      /\ list[Len(list)] = ret[w].id
      /\ nextId = ret[w].id + 1

\* Every caller's call has returned, behind an earlier member.
C4_Witness ==
  /\ Quiescent
  /\ DupReturned = Procs
  /\ Len(list) >= 2
  /\ \E p \in Procs : ret[p].existed

(***************************************************************************)
(* SpecCap: the limit is set on the empty order, then every caller makes   *)
(* one insertUser call with contact data of its own.                       *)
(***************************************************************************)
\* Caller p's contact data: an email for the first callers, a phone for
\* the others.
OwnContact(p) ==
  IF p <= NumEmails THEN <<p, None>> ELSE <<None, p - NumEmails>>

NextCap ==
  \/ \E p \in Procs, n \in LimitValues :
       calls = 0 /\ SetListLimit(p, n, FALSE)
  \/ \E p \in Procs, m \in Metas :
       /\ ret[p].op = ""
       /\ InsertUserScript(p, OwnContact(p)[1], OwnContact(p)[2], m, TRUE)
  \/ \E p \in Procs : InsertUserHset(p)

SpecCap == Init /\ [][NextCap]_vars

\* The insertUser calls that have ended, and those that returned.
CapEnded == {p \in Procs : ret[p].op = "insertUser"}

CapInserted == {p \in CapEnded : ret[p].err = ""}

\* C8: with limit L and N concurrent insertUser calls of distinct
\* identities on the empty order, min(N, L) calls succeed and get the
\* positions 1..min(N, L), and every other call fails with
\* 'Waitlist is full' and inserts nothing.
C8_LimitAdmitsMin ==
  Quiescent =>
    LET k == Min(Cardinality(CapEnded), lengthLimit)
    IN /\ Cardinality(CapInserted) = k
       /\ {ret[p].pos : p \in CapInserted} = 1..k
       /\ \A p \in CapInserted : ~ret[p].existed /\ list[ret[p].pos] = ret[p].id
       /\ \A p \in CapEnded \ CapInserted : ret[p].err = "Waitlist is full"
       /\ Len(list) = k
       /\ RecordIds = SeqToSet(list)

\* Every caller's call has ended, and the limit turned some away.
C8_Witness ==
  /\ Quiescent
  /\ CapEnded = Procs
  /\ lengthLimit > 0
  /\ Len(list) = lengthLimit
  /\ CapInserted # CapEnded

(***************************************************************************)
(* SpecGate: one caller inserts members, sets the signup cutoff, marks     *)
(* members as signed up, and moves and deletes members, one call after     *)
(* the other.                                                              *)
(***************************************************************************)
\* Every member joins with one email or with one phone.
GateContacts ==
  {<<e, None>> : e \in Emails} \cup {<<None, f>> : f \in Phones}

\* The ids handed out so far.
IssuedIds == 1..(nextId - 1)

NextGate ==
  \/ \E c \in GateContacts :
       calls < MaxGateCalls /\ InsertUserScript(Solo, c[1], c[2], NumMeta, TRUE)
  \/ InsertUserHset(Solo)
  \/ \E c \in CutoffValues : calls < MaxGateCalls /\ SetSignupCutoff(Solo, c, TRUE)
  \/ \E id \in IssuedIds : calls < MaxGateCalls /\ MarkUserAsSignedUp(Solo, id, TRUE)
  \/ \E id \in IssuedIds, t \in TargetPositions :
       calls < MaxGateCalls /\ MoveUserSigned(Solo, id, t, TRUE)
  \/ MoveUserPos(Solo)
  \/ MoveUserAttempt(Solo)
  \/ \E id \in IssuedIds : calls < MaxGateCalls /\ DeleteUser(Solo, id, TRUE)
  \/ \E e \in Emails : calls < MaxGateCalls /\ DeleteUserByEmailMapping(Solo, e, TRUE)
  \/ DeleteUserByEmailScript(Solo)
  \/ \E f \in Phones : calls < MaxGateCalls /\ DeleteUserByPhoneMapping(Solo, f, TRUE)
  \/ DeleteUserByPhoneScript(Solo)

SpecGate == Init /\ [][NextGate]_vars

\* A signed up member: an id of the signed up set that has a record.
SignedUpMember(id) == id \in signedUp /\ users[id].ex

\* The messages of the errors that refuse a signed up member.
SignedUpErrors ==
  {"Cannot delete user that has already signed up",
   "Cannot move user that has already signed up"}

\* C11: a deleteUser, deleteUserByEmail, deleteUserByPhone or moveUser call
\* on a signed up member changes neither the order nor a record nor an
\* index, and ends with the 'already signed up' error, whatever the signup
\* cutoff is.
C11_SignedUpRefused ==
  [][/\ (pc[Solo] \in {"mv_pos", "mv_script", "dbe_script", "dbp_script"}
           /\ SignedUpMember(loc[Solo].id)) =>
          /\ <<list, users, emails, phones, signedUp>>' =
               <<list, users, emails, phones, signedUp>>
          /\ pc'[Solo] = "idle" /\ ret'[Solo].err \in SignedUpErrors
     /\ (calls' = calls + 1 /\ ret'[Solo].op = "deleteUser"
           /\ SignedUpMember(ret'[Solo].id)) =>
          /\ <<list, users, emails, phones, signedUp>>' =
               <<list, users, emails, phones, signedUp>>
          /\ ret'[Solo].err \in SignedUpErrors
    ]_vars

\* A member signed up under a cutoff that was changed since was refused a
\* call while another member stands in the order.
C11_Witness ==
  /\ pc[Solo] = "idle"
  /\ ret[Solo].err \in SignedUpErrors
  /\ SignedUpMember(ret[Solo].id)
  /\ IndexOf(list, ret[Solo].id) > signupCutoff
  /\ Len(list) >= 2

\* The step that ends a moveUser call.
MoveEnds == pc[Solo] \in {"mv_pos", "mv_script"} /\ pc'[Solo] = "idle"

\* A moveUser call the cutoff forbids: the member stands within 1..cutoff,
\* or the target is at or below the cutoff.
CutoffForbids(l) ==
  \/ IndexOf(l.snap, l.id) >= 1 /\ IndexOf(l.snap, l.id) <= signupCutoff
  \/ l.target <= signupCutoff

\* A moveUser call of a member above the cutoff to a valid target above
\* the cutoff.
AboveCutoff(l) ==
  /\ MoveInRange(l)
  /\ IndexOf(l.snap, l.id) > signupCutoff
  /\ l.target > signupCutoff

\* C12, as stated: moveUser throws and leaves the order unchanged when the
\* member stands within 1..cutoff or the target is at or below the cutoff;
\* a member above the cutoff is moved to any valid target above the cutoff.
C12_CutoffGate ==
  [][MoveEnds =>
       /\ CutoffForbids(loc[Solo]) =>
            ret'[Solo].err # "" /\ list' = loc[Solo].snap
       /\ AboveCutoff(loc[Solo]) =>
            /\ ret'[Solo].ok
            /\ IndexOf(list', loc[Solo].id) = Min(loc[Solo].target, Len(loc[Solo].snap))
    ]_vars

\* C12, amended: the same, the second part for members that are not signed
\* up.
C12_CutoffGateUnlessSignedUp ==
  [][MoveEnds =>
       /\ CutoffForbids(loc[Solo]) =>
            ret'[Solo].err # "" /\ list' = loc[Solo].snap
       /\ (AboveCutoff(loc[Solo]) /\ loc[Solo].id \notin signedUp) =>
            /\ ret'[Solo].ok
            /\ IndexOf(list', loc[Solo].id) = Min(loc[Solo].target, Len(loc[Solo].snap))
    ]_vars

\* With the first member within the cutoff, the second was moved behind
\* the third.
C12_Witness ==
  /\ pc[Solo] = "idle"
  /\ ret[Solo].op = "moveUser" /\ ret[Solo].ok /\ ret[Solo].id = 2
  /\ signupCutoff = 1
  /\ list = <<1, 3, 2>>

(***************************************************************************)
(* SpecUse: a member joins and creates invite codes, one call at a time;   *)
(* then every caller makes one useInviteCode call with contact data of its *)
(* own, and all of these carry the same code, which is valid and unused    *)
(* when the first of them starts.                                          *)
(***************************************************************************)
\* The callers whose useInviteCode call has started, and the codes these
\* calls carry.
UseStarted == {q \in Procs : loc[q].track \/ ret[q].op # ""}

UseCarried ==
  {IF ret[q].op # "" THEN ret[q].code ELSE loc[q].code : q \in UseStarted}

NextUse ==
  \/ \E p \in Procs :
       /\ calls < MaxCalls
       /\ Quiescent
       /\ UseStarted = {}
       /\ InsertUserScript(p, None, NumPhones, NumMeta, FALSE)
  \/ \E p \in Procs : InsertUserHset(p)
  \/ \E p \in Procs, id \in IssuedIds, b \in BumpValues :
       /\ calls < MaxCalls
       /\ Quiescent
       /\ UseStarted = {}
       /\ CreateInviteCodeSigned(p, id, b, FALSE)
  \/ \E p \in Procs : CreateInviteCodeScript(p)
  \/ \E p \in Procs, c \in Codes, b \in BumpValues :
       /\ ret[p].op = ""
       /\ \A q \in Procs : pc[q] = "idle" \/ loc[q].track
       /\ inviteCodes[c] # None
       /\ UseCarried \subseteq {c}
       /\ UseStarted = {} => usedCodes[c] = None
       /\ UseInviteCodeCreator(p, c, OwnContact(p)[1], OwnContact(p)[2],
                               NumMeta, b, TRUE)
  \/ \E p \in Procs : UseInviteCodePos(p)
  \/ \E p \in Procs : UseInviteCodeSigned(p)
  \/ \E p \in Procs : UseInviteCodeScript(p)
  \/ \E p \in Procs : UseInviteCodeHset(p)
  \/ \E p \in Procs : UseInviteCodeGetPos(p)

SpecUse == Init /\ [][NextUse]_vars

\* The useInviteCode calls that have ended.
UseEnded == {p \in Procs : ret[p].op = "useInviteCode"}

NextCode ==
  \/ \E c \in GateContacts :
       calls < MaxCodeCalls /\ InsertUserScript(Solo, c[1], c[2], NumMeta, TRUE)
  \/ InsertUserHset(Solo)
  \/ \E id \in KnownIds, b \in BumpValues :
       calls < MaxCodeCalls /\ CreateInviteCodeSigned(Solo, id, b, TRUE)
  \/ CreateInviteCodeScript(Solo)
  \/ \E c \in Codes : calls < MaxCodeCalls /\ GetPositionAfterInviteCodeUse(Solo, c, TRUE)
  \/ \E c \in Codes, d \in GateContacts, b \in BumpValues :
       calls < MaxCodeCalls /\ UseInviteCodeCreator(Solo, c, d[1], d[2], NumMeta, b, TRUE)
  \/ UseInviteCodePos(Solo)
  \/ UseInviteCodeSigned(Solo)
  \/ UseInviteCodeScript(Solo)
  \/ UseInviteCodeHset(Solo)
  \/ UseInviteCodeGetPos(Solo)
  \/ \E id \in KnownIds : calls < MaxCodeCalls /\ DeleteUser(Solo, id, TRUE)

SpecCode == Init /\ [][NextCode]_vars

\* The step in which the script of a useInviteCode call succeeds.
UseSucceeds == pc[Solo] = "uic_script" /\ pc'[Solo] = "uic_hset"

\* C14: a successful useInviteCode on an order of length n whose creator
\* stands at c puts the new member at n + 1 and the creator at
\* max(1, c - max(requested bump, minimum bump)); the other members keep
\* their relative order, and the creator stands ahead of the new member.
C14_CreatorBumped ==
  [][UseSucceeds =>
       LET creator == loc[Solo].creator
           new == loc'[Solo].id
           bump == Max(loc[Solo].bump, codeBumps[loc[Solo].code])
       IN /\ IndexOf(list', new) = Len(list) + 1
          /\ IndexOf(list', creator) = Max(1, IndexOf(list, creator) - bump)
          /\ LRem1(LRem1(list', new), creator) = LRem1(list, creator)
          /\ IndexOf(list', creator) < IndexOf(list', new)
    ]_vars

\* A code with a minimum bump was used with a smaller requested bump, and
\* its creator passed the member that stood first.
C14_Witness ==
  /\ pc[Solo] = "idle"
  /\ ret[Solo].op = "useInviteCode" /\ ret[Solo].ok
  /\ list = <<2, 1, 3>>
  /\ ret[Solo].id = 3

\* C16: createInviteCode for an id that is no member of the waitlist fails
\* and stores no code.
C16_CreatorMustBeMember ==
  [][(pc[Solo] = "cic_script" /\ IndexOf(list, loc[Solo].id) = 0) =>
       /\ pc'[Solo] = "idle"
       /\ ret'[Solo].err # ""
       /\ <<inviteCodes, codeBumps, userCodeCount, userCodeSets>>' =
            <<inviteCodes, codeBumps, userCodeCount, userCodeSets>>
    ]_vars

\* The step of a getPositionAfterInviteCodeUse call.
Previews ==
  calls' = calls + 1 /\ ret'[Solo].op = "getPositionAfterInviteCodeUse"

\* C18: getPositionAfterInviteCodeUse(code) modifies nothing; it returns
\* max(1, creator's position - minimum bump) for a valid unused code whose
\* creator is in the order, and null for an unknown or used code.  With
\* one caller the store is the same when the preview returns and when the
\* script of the next call runs: a use of the code with a requested bump
\* not above the minimum then leaves the creator at the position the
\* preview computes from the store.
C18_PreviewIsExact ==
  [][/\ Previews =>
          LET c == ret'[Solo].code
              creatorPos == IndexOf(list, inviteCodes[c])
          IN /\ UNCHANGED <<storeVars, mgrVars>>
             /\ (inviteCodes[c] # None /\ usedCodes[c] = None /\ creatorPos # 0) =>
                  ret'[Solo].pos = Max(1, creatorPos - codeBumps[c])
             /\ (inviteCodes[c] = None \/ usedCodes[c] # None) =>
                  ret'[Solo].pos = None /\ ~ret'[Solo].ok
     /\ (UseSucceeds /\ loc[Solo].bump <= codeBumps[loc[Solo].code]) =>
          /\ PositionAfterUse(loc[Solo].code) # None
          /\ IndexOf(list', loc[Solo].creator) = PositionAfterUse(loc[Solo].code)
    ]_vars

\* The preview of a code whose creator stands second, with a minimum bump
\* that takes it to the front, has returned.
C18_Witness ==
  /\ pc[Solo] = "idle"
  /\ ret[Solo].op = "getPositionAfterInviteCodeUse"
  /\ ret[Solo].pos = 1
  /\ IndexOf(list, inviteCodes[ret[Solo].code]) = 2

(***************************************************************************)
(* SpecRace: the invite-code limit is set first; then callers insert and   *)
(* delete members and create and use invite codes concurrently.            *)
(***************************************************************************)
NextRace ==
  \/ \E p \in Callers, n \in (0 - 1)..NumCodes :
       calls = 0 /\ SetInviteCodeLimit(p, n, FALSE)
  \/ \E p \in Callers, e \in Emails :
       calls < MaxRaceCalls /\ InsertUserScript(p, e, None, NumMeta, TRUE)
  \/ \E p \in Callers : InsertUserHset(p)
  \/ \E p \in Callers, id \in IssuedIds, b \in BumpValues :
       calls < MaxRaceCalls /\ CreateInviteCodeSigned(p, id, b, TRUE)
  \/ \E p \in Callers : CreateInviteCodeScript(p)
  \/ \E p \in Callers, c \in Codes, f \in Phones, b \in BumpValues :
       calls < MaxRaceCalls /\ UseInviteCodeCreator(p, c, None, f, NumMeta, b, TRUE)
  \/ \E p \in Callers : UseInviteCodePos(p)
  \/ \E p \in Callers : UseInviteCodeSigned(p)
  \/ \E p \in Callers : UseInviteCodeScript(p)
  \/ \E p \in Callers : UseInviteCodeHset(p)
  \/ \E p \in Callers : UseInviteCodeGetPos(p)
  \/ \E p \in Callers, id \in IssuedIds :
       calls < MaxRaceCalls /\ DeleteUser(p, id, TRUE)

SpecRace == Init /\ [][NextRace]_vars

\* C15: a useInviteCode call applies all of its three effects or none: the
\* step in which its script succeeds records the code's user, appends the
\* new member with its index entries and leaves the creator in the order;
\* a step in which the call fails leaves the used-code map, the order and
\* both indexes as they were.
C15_UseIsAllOrNothing ==
  [][\A p \in Callers :
       /\ (pc[p] = "uic_script" /\ pc'[p] = "uic_hset") =>
            /\ usedCodes'[loc[p].code] = loc'[p].id
            /\ IndexOf(list', loc'[p].id) # 0
            /\ loc[p].email # None => emails'[loc[p].email] = loc'[p].id
            /\ loc[p].phone # None => phones'[loc[p].phone] = loc'[p].id
            /\ IndexOf(list', loc[p].creator) # 0
       /\ (pc[p] \in {"uic_pos", "uic_signed", "uic_script"} /\ pc'[p] = "idle") =>
            <<usedCodes, list, emails, phones>>' = <<usedCodes, list, emails, phones>>
    ]_vars

\* The codes whose recorded creator is id.
CodesOf(id) == {c \in Codes : inviteCodes[c] = id}

NoCommunityCode == \A c \in CommCodes : ~codes[c].ex

QuotaStarted == {p \in Procs : ret[p].op = "useCommunityCode"}

NextQuota ==
  \/ \E d \in GateContacts :
       /\ NoCommunityCode /\ calls < MaxCommCalls
       /\ InsertUserScript(Solo, d[1], d[2], NumMeta, FALSE)
  \/ InsertUserHset(Solo)
  \/ \E c \in CommCodes, n \in MaxUsesValues :
       /\ NoCommunityCode /\ calls < MaxCommCalls
       /\ CreateCommunityCodeExists(Solo, c, n, FALSE)
  \/ CreateCommunityCodeHset(Solo)
  \/ \E p \in Procs, c \in CommCodes :
       /\ codes[c].ex /\ Quiescent
       /\ p \notin QuotaStarted
       /\ UseCommunityCode(p, c, OwnContact(p)[1], OwnContact(p)[2], TRUE)

SpecQuota == Init /\ [][NextQuota]_vars

QuotaSucceeded(c) == {p \in QuotaStarted : ret[p].code = c /\ ret[p].ok}

QuotaRefused(c) ==
  {p \in QuotaStarted : ret[p].code = c /\ ret[p].err = "Code has reached usage limit"}

\* C19: when more useCommunityCode calls of distinct identities than the
\* code's maxUses N have run, exactly N of them succeeded, each of the
\* others failed with 'Code has reached usage limit', and currentUses is N.
C19_ExactlyMaxUsesSucceed ==
  \A c \in CommCodes :
    LET used == {p \in QuotaStarted : ret[p].code = c}
        n == codes[c].maxUses
    IN (codes[c].ex /\ Cardinality(used) > n) =>
         /\ Cardinality(QuotaSucceeded(c)) = n
         /\ QuotaRefused(c) = used \ QuotaSucceeded(c)
         /\ Cardinality(QuotaRefused(c)) = Cardinality(used) - n
         /\ CurrentUses(c) = n

\* Every caller has used a code with maxUses 2 and one of them was refused.
C19_Witness ==
  \E c \in CommCodes :
    /\ codes[c].ex /\ codes[c].maxUses = MaxMaxUses
    /\ \A p \in Procs : p \in QuotaStarted /\ ret[p].code = c
    /\ QuotaRefused(c) # {}
    /\ Cardinality(QuotaSucceeded(c)) = MaxMaxUses

(***************************************************************************)
(* SpecComm: callers create, use and delete community codes and insert     *)
(* members concurrently.                                                   *)
(***************************************************************************)
NextComm ==
  \/ \E p \in Callers, c \in CommCodes, n \in MaxUsesValues :
       calls < MaxCommCalls /\ CreateCommunityCodeExists(p, c, n, TRUE)
  \/ \E p \in Callers : CreateCommunityCodeHset(p)
  \/ \E p \in Callers, c \in CommCodes, d \in Contacts :
       calls < MaxCommCalls /\ UseCommunityCode(p, c, d[1], d[2], TRUE)
  \/ \E p \in Callers, c \in CommCodes :
       calls < MaxCommCalls /\ DeleteCommunityCode(p, c, TRUE)
  \/ \E p \in Callers, d \in GateContacts :
       calls < MaxCommCalls /\ InsertUserScript(p, d[1], d[2], NumMeta, TRUE)
  \/ \E p \in Callers : InsertUserHset(p)

SpecComm == Init /\ [][NextComm]_vars

\* C20: every existing community code has 0 <= currentUses <= maxUses in
\* every state, whatever createCommunityCode, useCommunityCode and
\* deleteCommunityCode calls interleave.
C20_UsesWithinMaxUses ==
  \A c \in CommCodes :
    codes[c].ex => (0 <= CurrentUses(c) /\ CurrentUses(c) <= codes[c].maxUses)

(***************************************************************************)
(* SpecShare: one caller inserts members and creates one community code;   *)
(* then every caller makes one useCommunityCode call on it, with any       *)
(* contact data, so that calls may carry the same email or phone.          *)
(***************************************************************************)
NextShare ==
  \/ \E d \in GateContacts :
       /\ NoCommunityCode /\ calls < MaxCommCalls
       /\ InsertUserScript(Solo, d[1], d[2], NumMeta, FALSE)
  \/ InsertUserHset(Solo)
  \/ \E c \in CommCodes, n \in MaxUsesValues :
       /\ NoCommunityCode /\ calls < MaxCommCalls
       /\ CreateCommunityCodeExists(Solo, c, n, FALSE)
  \/ CreateCommunityCodeHset(Solo)
  \/ \E p \in Procs, c \in CommCodes, d \in Contacts :
       /\ codes[c].ex /\ Quiescent
       /\ p \notin QuotaStarted
       /\ UseCommunityCode(p, c, d[1], d[2], TRUE)

SpecShare == Init /\ [][NextShare]_vars

\* The step in which caller p's useCommunityCode call runs.
ShareUses(p) == ret[p].op = "" /\ ret'[p].op = "useCommunityCode"

\* The call that ends in this step carries an email or phone that is in
\* the code's usage set.
ShareRepeats(p) ==
  UsageEntries(ret'[p].email, ret'[p].phone) \cap codeUsers[ret'[p].code] # {}

AlreadyUsedErrors ==
  {"Code already used by this email", "Code already used by this phone"}

\* The calls on code c that have ended, and those that carried contact d.
ShareEnded(c) == {p \in QuotaStarted : ret[p].code = c}

ShareCarried(c, d) == {p \in ShareEnded(c) : <<ret[p].email, ret[p].phone>> = d}

\* The calls that succeeded with entry x (an email or a phone) on code c.
ShareCounted(c, x) ==
  {p \in QuotaSucceeded(c) : x \in UsageEntries(ret[p].email, ret[p].phone)}

\* An email or phone is counted at most once for a code, and of the calls
\* that all carry one identity on a code exactly one succeeds and the
\* counter is 1.
ShareCountsOnce ==
  \A c \in CommCodes :
    /\ \A d \in Contacts : \A x \in UsageEntries(d[1], d[2]) :
         Cardinality(ShareCounted(c, x)) <= 1
    /\ CurrentUses(c) = Cardinality(QuotaSucceeded(c))
    /\ \A d \in Contacts \ {<<None, None>>} :
         (codes[c].ex /\ ShareEnded(c) # {} /\ ShareCarried(c, d) = ShareEnded(c)) =>
           /\ Cardinality(QuotaSucceeded(c)) = 1
           /\ CurrentUses(c) = 1

\* C21 as stated: a call whose email or phone is already in the code's
\* usage set fails with 'Code already used by this email/phone' and leaves
\* the counter unchanged; an identity is counted once.
C21_RepeatedIdentityRefused ==
  /\ [](ShareCountsOnce)
  /\ [][\A p \in Procs :
          (ShareUses(p) /\ ShareRepeats(p)) =>
            /\ ret'[p].err \in AlreadyUsedErrors
            /\ codeUses' = codeUses
       ]_vars

\* C21 amended: the call fails and leaves the counter unchanged; its
\* message is 'Code already used by this email/phone' when the code has
\* uses left and 'Code has reached usage limit' when it has none.
C21_RepeatedIdentityFails ==
  /\ [](ShareCountsOnce)
  /\ [][\A p \in Procs :
          (ShareUses(p) /\ ShareRepeats(p)) =>
            LET c == ret'[p].code
            IN /\ ~ret'[p].ok
               /\ codeUses' = codeUses /\ codeUsers' = codeUsers
               /\ IF CurrentUses(c) < codes[c].maxUses
                  THEN ret'[p].err \in AlreadyUsedErrors
                  ELSE ret'[p].err = "Code has reached usage limit"
       ]_vars

\* Every caller used the code with one email; one call succeeded and
\* another was refused because of the email while the code had uses left.
C21_Witness ==
  \E c \in CommCodes, e \in Emails :
    /\ \A p \in Procs : p \in ShareCarried(c, <<e, None>>)
    /\ \E p \in Procs : ret[p].err = "Code already used by this email"
    /\ CurrentUses(c) = 1 /\ codes[c].maxUses > 1

\* The members an email or phone of the call is bound to.
BoundMembers(email, phone) ==
  ({emails[e] : e \in {email} \ {None}} \cup {phones[f] : f \in {phone} \ {None}})
    \ {None}

\* The calls on code c whose contact data is one email or one phone that
\* is bound to a member.
MemberCalls(c) ==
  {p \in ShareEnded(c) :
     /\ ret[p].email = None \/ ret[p].phone = None
     /\ BoundMembers(ret[p].email, ret[p].phone) # {}}

\* After more uses than maxUses, each by a different member, of a code
\* with maxUses n, n members are signed up.
MembersSignedUp ==
  \A c \in CommCodes :
    (/\ codes[c].ex /\ MemberCalls(c) = ShareEnded(c)
     /\ \A p, q \in MemberCalls(c) :
          p # q => BoundMembers(ret[p].email, ret[p].phone) #
                     BoundMembers(ret[q].email, ret[q].phone)
     /\ Cardinality(ShareEnded(c)) > codes[c].maxUses) =>
       Cardinality(signedUp) = codes[c].maxUses

\* C22 as stated: a successful call signs up every member its email or
\* phone is bound to, a failed call signs up no one, and N + k uses by
\* distinct members leave N members signed up.
C22_UseSignsUpBoundMembers ==
  /\ [](MembersSignedUp)
  /\ [][\A p \in Procs :
          ShareUses(p) =>
            IF ret'[p].ok
            THEN /\ BoundMembers(ret'[p].email, ret'[p].phone) \subseteq signedUp'
                 /\ signedUp' \subseteq
                      signedUp \cup BoundMembers(ret'[p].email, ret'[p].phone)
            ELSE signedUp' = signedUp
       ]_vars

\* C22 amended: a successful call signs up the member its email is bound
\* to, or, when it has no email or the email is unbound, the member its
\* phone is bound to, and no one else.
C22_UseSignsUpOneMember ==
  /\ [](MembersSignedUp)
  /\ [][\A p \in Procs :
          ShareUses(p) =>
            IF ret'[p].ok
            THEN LET e == ret'[p].email
                     f == ret'[p].phone
                     byEmail == {emails[x] : x \in {e} \ {None}} \ {None}
                     byPhone == {phones[x] : x \in {f} \ {None}} \ {None}
                 IN signedUp' = signedUp \cup (IF byEmail # {} THEN byEmail ELSE byPhone)
            ELSE signedUp' = signedUp
       ]_vars

\* Every caller is a different member that used the code with its own
\* email or phone, and the code with maxUses 2 signed two of them up.
C22_Witness ==
  \E c \in CommCodes :
    /\ codes[c].maxUses = MaxMaxUses
    /\ \A p \in Procs : p \in MemberCalls(c)
    /\ \A p, q \in Procs :
         p # q => BoundMembers(ret[p].email, ret[p].phone) #
                    BoundMembers(ret[q].email, ret[q].phone)
    /\ Cardinality(signedUp) = MaxMaxUses

\* C23: a createCommunityCode call that runs while the code exists changes
\* neither the code's maxUses nor its counter and does not return true, so
\* no second call for a code returns true before the code is deleted; a
\* call with maxUses < 1 throws and creates nothing.
C23_CreateOnlyOnce ==
  [][\A p \in Callers :
       /\ (pc[p] = "ccc_hset" /\ pc'[p] = "idle") =>
            LET c == loc[p].code
            IN IF codes[c].ex
               THEN /\ ~ret'[p].ok
                    /\ codes'[c].maxUses = codes[c].maxUses
                    /\ codeUses' = codeUses
               ELSE ret'[p].ok /\ codes'[c].ex
       /\ (ret'[p] # ret[p] /\ ret'[p].err = "Maximum uses must be at least 1") =>
            UNCHANGED commVars
    ]_vars

(***************************************************************************)
(* SpecDrop: one caller inserts members, creates one community code and    *)
(* uses it; then every caller makes one deleteCommunityCode call on it.    *)
(***************************************************************************)
DropStarted == {p \in Procs : ret[p].op = "deleteCommunityCode"}

NextDrop ==
  \/ \E d \in GateContacts :
       /\ NoCommunityCode /\ DropStarted = {} /\ calls < MaxCommCalls
       /\ InsertUserScript(Solo, d[1], d[2], NumMeta, FALSE)
  \/ InsertUserHset(Solo)
  \/ \E c \in CommCodes, n \in MaxUsesValues :
       /\ NoCommunityCode /\ DropStarted = {} /\ calls < MaxCommCalls
       /\ CreateCommunityCodeExists(Solo, c, n, FALSE)
  \/ CreateCommunityCodeHset(Solo)
  \/ \E c \in CommCodes, d \in Contacts :
       /\ codes[c].ex /\ calls < MaxCommCalls
       /\ UseCommunityCode(Solo, c, d[1], d[2], FALSE)
  \/ \E p \in Procs, c \in CommCodes :
       /\ Quiescent /\ p \notin DropStarted
       /\ codes[c].ex \/ \E q \in DropStarted : ret[q].code = c
       /\ DeleteCommunityCode(p, c, TRUE)

SpecDrop == Init /\ [][NextDrop]_vars

DropEnded(c) == {p \in DropStarted : ret[p].code = c}

\* C24: of the deleteCommunityCode calls made for one existing code exactly
\* one returns true and the others return false; afterwards the code has
\* no info, no counter and no usage set; and a deleteCommunityCode call
\* leaves the SignedUp set as it was.
C24_OneDeleteSucceeds ==
  /\ [](\A c \in CommCodes :
          DropEnded(c) # {} =>
            /\ Cardinality({p \in DropEnded(c) : ret[p].ok}) = 1
            /\ ~codes[c].ex
            /\ CurrentUses(c) = 0
            /\ codeUsers[c] = {})
  /\ [][\A p \in Procs :
          (ret[p].op = "" /\ ret'[p].op = "deleteCommunityCode") =>
            signedUp' = signedUp
       ]_vars

\* Every caller has deleted a code that was used by a member, who is
\* still signed up.
C24_Witness ==
  \E c \in CommCodes :
    /\ DropEnded(c) = Procs
    /\ signedUp # {}
    /\ \E p \in Procs : ~ret[p].ok

(***************************************************************************)
(* SpecElig: one caller inserts, moves and deletes members, sets the       *)
(* signup cutoff, asks whether members can sign up and marks them.         *)
(***************************************************************************)
NextElig ==
  \/ \E c \in GateContacts :
       calls < MaxGateCalls /\ InsertUserScript(Solo, c[1], c[2], NumMeta, FALSE)
  \/ InsertUserHset(Solo)
  \/ \E c \in CutoffValues : calls < MaxGateCalls /\ SetSignupCutoff(Solo, c, TRUE)
  \/ \E id \in KnownIds : calls < MaxGateCalls /\ MarkUserAsSignedUp(Solo, id, TRUE)
  \/ \E id \in KnownIds : calls < MaxGateCalls /\ CanUserSignUpPos(Solo, id, TRUE)
  \/ CanUserSignUpSigned(Solo)
  \/ \E id \in IssuedIds, t \in TargetPositions :
       calls < MaxGateCalls /\ MoveUserSigned(Solo, id, t, FALSE)
  \/ MoveUserPos(Solo)
  \/ MoveUserAttempt(Solo)
  \/ \E id \in IssuedIds : calls < MaxGateCalls /\ DeleteUser(Solo, id, FALSE)

SpecElig == Init /\ [][NextElig]_vars

\* The step in which the caller's markUserAsSignedUp call runs, and the
\* one in which its canUserSignUp call returns.
MarkRuns == calls' = calls + 1 /\ ret'[Solo].op = "markUserAsSignedUp"

CanReturns == pc[Solo] = "cus_signed"

\* id is in the order at a position from 1 to the cutoff and is not signed up.
Eligible(id) ==
  /\ IndexOf(list, id) >= 1
  /\ IndexOf(list, id) <= signupCutoff
  /\ id \notin signedUp

C26_ZeroOpensMinusOneCloses ==
  [][/\ (MarkRuns /\ signupCutoff = 0 /\ IndexOf(list, ret'[Solo].id) # 0
           /\ ret'[Solo].id \notin signedUp) =>
          ret'[Solo].ok /\ ret'[Solo].id \in signedUp'
     /\ (CanReturns /\ signupCutoff = 0 /\ IndexOf(list, loc[Solo].id) # 0
           /\ loc[Solo].id \notin signedUp) =>
          ret'[Solo].ok
     /\ (MarkRuns /\ signupCutoff = 0 - 1) => (~ret'[Solo].ok /\ signedUp' = signedUp)
     /\ (CanReturns /\ signupCutoff = 0 - 1) => ~ret'[Solo].ok
    ]_vars

\* The step in which the caller's setSignupCutoff call runs.
CutoffRuns == calls' = calls + 1 /\ ret'[Solo].op = "setSignupCutoff"

\* C27: setSignupCutoff(c) throws for c < -1 and leaves the cutoff as it
\* was; otherwise the cutoff becomes the minimum of c and the length of the
\* order, so that with c above the length every member's position is
\* within the cutoff.
C27_CutoffClamped ==
  [][CutoffRuns =>
       LET c == ret'[Solo].arg
       IN /\ UNCHANGED storeVars
          /\ IF c < 0 - 1
             THEN /\ ret'[Solo].err = "Signup cutoff cannot be less than -1"
                  /\ signupCutoff' = signupCutoff
             ELSE /\ ret'[Solo].err = ""
                  /\ signupCutoff' = Min(c, Len(list))
                  /\ c > Len(list) =>
                       \A i \in 1..Len(list) : IndexOf(list, list[i]) <= signupCutoff'
    ]_vars

\* A cutoff above the length of an order of two members was stored as 2.
C27_Witness ==
  /\ ret[Solo].op = "setSignupCutoff" /\ ret[Solo].arg > Len(list)
  /\ Len(list) = 2 /\ signupCutoff = 2

(***************************************************************************)
(* SpecAttach: one caller inserts and deletes members and marks them as    *)
(* signed up; then each caller makes one attachEmail or attachPhone call,  *)
(* concurrently.                                                           *)
(***************************************************************************)
AttachStarted == {q \in Procs : loc[q].track \/ ret[q].op # ""}

NextAttach ==
  \/ \E c \in GateContacts :
       /\ AttachStarted = {} /\ calls < MaxAttachCalls
       /\ InsertUserScript(Solo, c[1], c[2], NumMeta, FALSE)
  \/ InsertUserHset(Solo)
  \/ /\ AttachStarted = {} /\ calls < MaxAttachCalls
     /\ SetSignupCutoff(Solo, MaxIds, FALSE)
  \/ \E id \in IssuedIds :
       /\ AttachStarted = {} /\ calls < MaxAttachCalls
       /\ MarkUserAsSignedUp(Solo, id, FALSE)
  \/ \E id \in IssuedIds :
       /\ AttachStarted = {} /\ calls < MaxAttachCalls
       /\ DeleteUser(Solo, id, FALSE)
  \/ \E p \in Callers, id \in KnownIds, e \in Emails :
       /\ pc[Solo] = "idle" /\ p \notin AttachStarted
       /\ AttachEmailSigned(p, id, e, TRUE)
  \/ \E p \in Callers : AttachEmailScript(p)
  \/ \E p \in Callers : AttachEmailHget(p)
  \/ \E p \in Callers : AttachEmailHset(p)
  \/ \E p \in Callers, id \in KnownIds, f \in Phones :
       /\ pc[Solo] = "idle" /\ p \notin AttachStarted
       /\ AttachPhoneSigned(p, id, f, TRUE)
  \/ \E p \in Callers : AttachPhoneScript(p)
  \/ \E p \in Callers : AttachPhoneHget(p)
  \/ \E p \in Callers : AttachPhoneHset(p)

SpecAttach == Init /\ [][NextAttach]_vars

\* The step in which caller p's attach call throws.
AttachThrows(p) ==
  /\ ret[p].op = "" /\ ret'[p].op \in {"attachEmail", "attachPhone"}
  /\ ret'[p].err # ""

\* The email or phone of the attach call that throws is bound, or its id
\* has no record.
AttachMustFail(p) ==
  \/ ~users[ret'[p].id].ex
  \/ ret'[p].op = "attachEmail" /\ emails[ret'[p].email] # None
  \/ ret'[p].op = "attachPhone" /\ phones[ret'[p].phone] # None

\* The script step of caller p's attach call: it returns false and changes
\* nothing when the email or phone is bound or the id has no record, and
\* binds it otherwise.
AttachScriptDecides(p) ==
  /\ (pc[p] = "ae_script" /\ pc'[p] # "ae_script") =>
       IF emails[loc[p].email] # None \/ ~users[loc[p].id].ex
       THEN /\ pc'[p] = "idle" /\ ret'[p].op = "attachEmail"
            /\ ~ret'[p].ok /\ ret'[p].err = ""
            /\ UNCHANGED <<emails, phones, users>>
       ELSE pc'[p] = "ae_hget" /\ emails'[loc[p].email] = loc[p].id
  /\ (pc[p] = "ap_script" /\ pc'[p] # "ap_script") =>
       IF phones[loc[p].phone] # None \/ ~users[loc[p].id].ex
       THEN /\ pc'[p] = "idle" /\ ret'[p].op = "attachPhone"
            /\ ~ret'[p].ok /\ ret'[p].err = ""
            /\ UNCHANGED <<emails, phones, users>>
       ELSE pc'[p] = "ap_hget" /\ phones'[loc[p].phone] = loc[p].id

\* The step in which caller p's attach call returns true: the index maps
\* the email or phone to the caller's id and the record carries it.
AttachSucceeds(p) ==
  /\ (pc[p] = "ae_hset" /\ pc'[p] = "idle") =>
       /\ ret'[p].ok
       /\ emails'[loc[p].email] = loc[p].id
       /\ users'[loc[p].id].email = loc[p].email
  /\ (pc[p] = "ap_hset" /\ pc'[p] = "idle") =>
       /\ ret'[p].ok
       /\ phones'[loc[p].phone] = loc[p].id
       /\ users'[loc[p].id].phone = loc[p].phone

\* At most one attach call returns true for an email, and for a phone.
AttachOneWinner ==
  /\ \A e \in Emails :
       Cardinality({p \in Procs : ret[p].op = "attachEmail" /\ ret[p].ok
                                   /\ ret[p].email = e}) <= 1
  /\ \A f \in Phones :
       Cardinality({p \in Procs : ret[p].op = "attachPhone" /\ ret[p].ok
                                   /\ ret[p].phone = f}) <= 1

\* C28 as stated: an attach call whose email or phone is bound, or whose
\* id has no record, returns false (it does not throw) and changes nothing;
\* of the concurrent attaches of an unbound email one returns true, and
\* the index and the record then carry the value.
C28_AttachReturnsFalse ==
  /\ [](AttachOneWinner)
  /\ [][\A p \in Callers :
          /\ AttachScriptDecides(p)
          /\ AttachSucceeds(p)
          /\ AttachThrows(p) => ~AttachMustFail(p)
       ]_vars

\* C28 amended: an attach call for an id of the SignedUp set throws and
\* changes nothing, whatever the email, phone or record; any other call
\* behaves as stated.
C28_AttachReturnsFalseOrThrows ==
  /\ [](AttachOneWinner)
  /\ [][\A p \in Callers :
          /\ AttachScriptDecides(p)
          /\ AttachSucceeds(p)
          /\ AttachThrows(p) =>
               /\ ret'[p].id \in signedUp
               /\ UNCHANGED storeVars
       ]_vars

\* Two members attached the same email concurrently: one call returned
\* true, the other false.
C28_Witness ==
  \E p, q \in Callers :
    /\ ret[p].op = "attachEmail" /\ ret[q].op = "attachEmail"
    /\ ret[p].email = ret[q].email /\ ret[p].id # ret[q].id
    /\ users[ret[p].id].ex /\ users[ret[q].id].ex
    /\ ret[p].ok /\ ~ret[q].ok /\ ret[q].err = ""
    /\ emails[ret[p].email] = ret[p].id

(***************************************************************************)
(* Properties of every state, the states inside a call included.           *)
(***************************************************************************)
\* The ids that are in the order or bound in the email or phone index.
VisibleIds ==
  SeqToSet(list) \cup {emails[e] : e \in Emails} \cup {phones[f] : f \in Phones}

\* C29: in every state, the states between the store transactions of one
\* call included, each id that is in the order or bound in the email or
\* phone index has a member record.
C29_VisibleIdsHaveRecords ==
  \A id \in VisibleIds \ {None} : users[id].ex

\* C30: the move lock is free in every state between transactions, and an
\* attempt of moveUser does to the order what the move script does with
\* the lock in hand, so that no attempt fails because the lock is held.
C30_LockAlwaysFree ==
  /\ [](lock = FALSE)
  /\ [][\A p \in Callers :
          (pc[p] = "mv_script" /\ <<pc[p], loc[p]>>' # <<pc[p], loc[p]>>) =>
            LET out == MoveScript(list, loc[p].id, loc[p].target)
            IN /\ list' = out.list
               /\ out.res = 1 => pc'[p] = "idle"
       ]_vars

\* Two callers are in the retry loop of moveUser, one after a failed
\* attempt.
C30_Witness ==
  \E p, q \in Callers :
    /\ p # q
    /\ pc[p] = "mv_script" /\ pc[q] = "mv_script"
    /\ loc[p].attempts < MoveAttempts

(***************************************************************************)
(* moveUser of an id that is not in the order.                             *)
(***************************************************************************)
\* A moveUser call of an id that is not in a non-empty order to a target in
\* [1, length + 1], with the cutoff at -1.
MoveAbsentInRange(l) ==
  /\ IndexOf(l.snap, l.id) = 0
  /\ Len(l.snap) >= 1
  /\ l.target >= 1
  /\ l.target <= Len(l.snap) + 1
  /\ signupCutoff = 0 - 1

\* C31: such a call returns true; the id is then at the target position,
\* the length has grown by one and the other members stand as before.
C31_MoveInsertsAbsentId ==
  [][(pc[Solo] = "mv_script" /\ pc'[Solo] # "mv_script"
        /\ MoveAbsentInRange(loc[Solo])) =>
       /\ ret'[Solo].op = "moveUser" /\ ret'[Solo].ok
       /\ IndexOf(list', loc[Solo].id) = loc[Solo].target
       /\ Len(list') = Len(loc[Solo].snap) + 1
       /\ LRem1(list', loc[Solo].id) = loc[Solo].snap
    ]_vars

\* An id that was never issued was moved into the middle of the order.
C31_Witness ==
  /\ ret[Solo].op = "moveUser" /\ ret[Solo].ok
  /\ ret[Solo].id = Ghost /\ ret[Solo].pos = 2
  /\ Len(list) = 3 /\ list[2] = Ghost

(***************************************************************************)
(* SpecEnter: one caller inserts and deletes members, sets the cutoff,     *)
(* marks members as signed up and creates and uses community codes.        *)
(***************************************************************************)
NextEnter ==
  \/ \E c \in GateContacts :
       calls < MaxGateCalls /\ InsertUserScript(Solo, c[1], c[2], NumMeta, FALSE)
  \/ InsertUserHset(Solo)
  \/ \E c \in CutoffValues : calls < MaxGateCalls /\ SetSignupCutoff(Solo, c, FALSE)
  \/ \E id \in KnownIds : calls < MaxGateCalls /\ MarkUserAsSignedUp(Solo, id, TRUE)
  \/ \E c \in CommCodes :
       calls < MaxGateCalls /\ CreateCommunityCodeExists(Solo, c, MaxMaxUses, FALSE)
  \/ CreateCommunityCodeHset(Solo)
  \/ \E c \in CommCodes, d \in Contacts :
       calls < MaxGateCalls /\ UseCommunityCode(Solo, c, d[1], d[2], TRUE)
  \/ \E id \in IssuedIds : calls < MaxGateCalls /\ DeleteUser(Solo, id, FALSE)

SpecEnter == Init /\ [][NextEnter]_vars

\* The ids that enter the SignedUp set in this step.
Entering == signedUp' \ signedUp

\* id is in the order at a position from 1 to the cutoff.
WithinCutoff(id) == IndexOf(list, id) >= 1 /\ IndexOf(list, id) <= signupCutoff

\* The step in which a useCommunityCode call of the caller succeeds.
CommunityUseSucceeds ==
  calls' = calls + 1 /\ ret'[Solo].op = "useCommunityCode" /\ ret'[Solo].ok

\* C32 as stated: an id that markUserAsSignedUp or useCommunityCode adds to
\* the SignedUp set is in the order at a position from 1 to the cutoff.
C32_EntersFromEligible ==
  [][\A id \in Entering : WithinCutoff(id)]_vars

\* C32 amended: an id that markUserAsSignedUp adds is in the order at a
\* position from 1 to the cutoff; an id that useCommunityCode adds is the
\* one the call's email or phone is bound to, whatever its position and
\* the cutoff; nothing else adds an id.
C32_EntersFromEligibleOrByCode ==
  [][\A id \in Entering :
       \/ MarkRuns /\ ret'[Solo].id = id /\ WithinCutoff(id)
       \/ /\ CommunityUseSucceeds
          /\ \/ ret'[Solo].email # None /\ emails[ret'[Solo].email] = id
             \/ ret'[Solo].phone # None /\ phones[ret'[Solo].phone] = id
    ]_vars

\* One member was marked within the cutoff and another, behind the cutoff,
\* was signed up by a community code.
C32_Witness ==
  /\ Cardinality(signedUp) = 2
  /\ \E id \in signedUp : IndexOf(list, id) > signupCutoff
  /\ \E id \in signedUp : WithinCutoff(id)
  /\ ret[Solo].op = "useCommunityCode" /\ ret[Solo].ok

(***************************************************************************)
(* SpecSame: members are inserted one after the other, then callers move   *)
(* distinct present members to one target position, all together.          *)
(***************************************************************************)
\* The callers that have started their moveUser call.
Movers == {p \in Procs : pc[p] \in {"mv_pos", "mv_script"} \/ ret[p].op = "moveUser"}

MoverId(p) == IF pc[p] = "idle" THEN ret[p].id ELSE loc[p].id

MoverTarget(p) == IF pc[p] = "idle" THEN ret[p].pos ELSE loc[p].target

NextSame ==
  \/ \E c \in GateContacts :
       /\ Movers = {} /\ calls < MaxSameCalls
       /\ InsertUserScript(Solo, c[1], c[2], NumMeta, FALSE)
  \/ InsertUserHset(Solo)
  \/ \E p \in Procs, id \in SeqToSet(list), k \in 1..(Len(list) + 1) :
       /\ pc[Solo] = "idle" /\ p \notin Movers
       /\ \A q \in Movers : MoverId(q) # id /\ MoverTarget(q) = k
       /\ MoveUserSigned(p, id, k, TRUE)
  \/ \E p \in Procs : MoveUserPos(p)
  \/ \E p \in Procs : MoveUserAttempt(p)

SpecSame == Init /\ [][NextSame]_vars

\* Several callers moved members to one target and all have returned.
SameDone == Quiescent /\ Cardinality(Movers) >= 2

SameTarget == MoverTarget(CHOOSE p \in Movers : TRUE)

MovedIds == {MoverId(p) : p \in Movers}

\* The members were inserted in the order of their ids and none was deleted.
IsPermutation(l) == NoDup(l) /\ SeqToSet(l) = IssuedIds

\* The members that did not move stand in the order they were inserted in.
OthersKeepOrder(l) ==
  \A i, j \in 1..Len(l) :
    (i < j /\ l[i] \notin MovedIds /\ l[j] \notin MovedIds) => l[i] < l[j]

\* The positions the moved members stand at.
MovedPositions == {IndexOf(list, id) : id \in MovedIds}

\* The moved members stand at K, K+1, ...: whoever committed last at K and
\* each earlier mover one slot further back.
StackedAt(k) == MovedPositions = k..(k + Cardinality(MovedIds) - 1)

\* C33 as stated: when several distinct present members were moved to one
\* valid position K by calls running together, every call returned true, no
\* member is lost or duplicated, the moved members stand at K, K+1, ... and
\* the other members keep their relative order.
C33_SameTargetStack ==
  SameDone =>
    /\ \A p \in Movers : ret[p].ok
    /\ IsPermutation(list)
    /\ StackedAt(SameTarget)
    /\ OthersKeepOrder(list)

\* The order after one moveUser(id, k) call that runs alone on l.
MoveAlone(l, id, k) ==
  IF k = 1 THEN LPush(LRem1(l, id), id)
  ELSE IF k >= Len(l) THEN RPush(LRem1(l, id), id)
  ELSE PutAt(LRem1(l, id), k, id)

RECURSIVE MovesApplied(_, _, _)
MovesApplied(l, order, k) ==
  IF order = <<>> THEN l
  ELSE MovesApplied(MoveAlone(l, Head(order), k), Tail(order), k)

\* The orders in which the movers may have committed.
CommitOrders ==
  {o \in [1..Cardinality(MovedIds) -> MovedIds] :
     \A i, j \in 1..Cardinality(MovedIds) : i # j => o[i] # o[j]}

InsertedOrder == [i \in 1..(nextId - 1) |-> i]

\* C33 amended: every call returns true, no member is lost or duplicated,
\* the other members keep their relative order, and the final order is that
\* of the moves made one after the other in some order, each putting its
\* member at min(K, length); the moved members stand at K, K+1, ... when K
\* is 1, or when K is below the length and every moved member started at
\* position K or behind it.
C33_SameTargetApplied ==
  SameDone =>
    /\ \A p \in Movers : ret[p].ok
    /\ IsPermutation(list)
    /\ OthersKeepOrder(list)
    /\ \E o \in CommitOrders : list = MovesApplied(InsertedOrder, o, SameTarget)
    /\ (SameTarget = 1 \/ (SameTarget < Len(list) /\ \A id \in MovedIds : id >= SameTarget))
         => StackedAt(SameTarget)

\* The second and the third of three members were moved to position 2
\* together and the second committed last.
C33_Witness ==
  /\ SameDone /\ Cardinality(Movers) = 2
  /\ SameTarget = 2 /\ Len(list) = 3
  /\ MovedIds = {2, 3}
  /\ list = <<1, 2, 3>>
  /\ \A p \in Movers : ret[p].ok

(***************************************************************************)
(* SpecTrip: members are inserted one after the other, then one member is  *)
(* moved to the front and back to the position it had, again and again.    *)
(***************************************************************************)
\* The target of the next move of the round trip: the front, and after a
\* move to the front the position the member had, which is its id.
NextLeg == IF ret[Solo].pos = 1 THEN ret[Solo].id ELSE 1

NextTrip ==
  \/ \E c \in GateContacts :
       /\ ret[Solo].op = "" /\ calls < MaxSameCalls
       /\ InsertUserScript(Solo, c[1], c[2], NumMeta, FALSE)
  \/ InsertUserHset(Solo)
  \/ \E id \in SeqToSet(list) :
       /\ ret[Solo].op = "" /\ calls < MaxTripCalls
       /\ MoveUserSigned(Solo, id, 1, TRUE)
  \/ /\ ret[Solo].op = "moveUser" /\ calls < MaxTripCalls
     /\ MoveUserSigned(Solo, ret[Solo].id, NextLeg, TRUE)
  \/ MoveUserPos(Solo)
  \/ MoveUserAttempt(Solo)

SpecTrip == Init /\ [][NextTrip]_vars

\* The caller's last call was the move back to the position the member had.
TripDone ==
  /\ pc[Solo] = "idle" /\ ret[Solo].op = "moveUser"
  /\ ret[Solo].pos = ret[Solo].id

\* C34: after moveUser(id, 1) and then moveUser(id, p), p the position the
\* member had, the order is the original one, also after repetitions; the
\* move to the front leaves the member first and the others in their order.
C34_RoundTripRestores ==
  /\ TripDone => ret[Solo].ok /\ list = InsertedOrder
  /\ (pc[Solo] = "idle" /\ ret[Solo].op = "moveUser" /\ ret[Solo].pos = 1) =>
       /\ ret[Solo].ok
       /\ list = <<ret[Solo].id>> \o LRem1(InsertedOrder, ret[Solo].id)

\* The second of three members is back at position 2 after two round trips.
C34_Witness ==
  /\ TripDone /\ ret[Solo].id = 2 /\ ret[Solo].ok
  /\ list = <<1, 2, 3>>
  /\ calls >= 7

(***************************************************************************)
(* SpecOutstanding: one caller inserts members, sets the invite code       *)
(* limit, creates invite codes and uses them, one call after the other.    *)
(***************************************************************************)
NextOutstanding ==
  \/ \E c \in GateContacts :
       calls < MaxCodeCalls /\ InsertUserScript(Solo, c[1], c[2], NumMeta, FALSE)
  \/ InsertUserHset(Solo)
  \/ \E n \in LimitValues : calls < MaxCodeCalls /\ SetInviteCodeLimit(Solo, n, FALSE)
  \/ \E id \in IssuedIds : calls < MaxCodeCalls /\ CreateInviteCodeSigned(Solo, id, 0, TRUE)
  \/ CreateInviteCodeScript(Solo)
  \/ \E c \in Codes, d \in GateContacts :
       calls < MaxCodeCalls /\ UseInviteCodeCreator(Solo, c, d[1], d[2], NumMeta, 0, FALSE)
  \/ UseInviteCodePos(Solo)
  \/ UseInviteCodeSigned(Solo)
  \/ UseInviteCodeScript(Solo)
  \/ UseInviteCodeHset(Solo)
  \/ UseInviteCodeGetPos(Solo)

SpecOutstanding == Init /\ [][NextOutstanding]_vars

\* The codes id created that have not been used.
OutstandingCodes(id) == {c \in CodesOf(id) : usedCodes[c] = None}

\* C35: the script of createInviteCode fails with the limit error exactly
\* when the creator's codes that have not been used are at least the limit.
C35_LimitCountsOutstanding ==
  [][(pc[Solo] = "cic_script" /\ pc'[Solo] = "idle") =>
       ((ret'[Solo].err = "Invite code limit reached")
          <=> (Cardinality(OutstandingCodes(loc[Solo].id)) >= inviteCodeLimit))
    ]_vars

(***************************************************************************)
(* The gap-score variant of the manager: the order is the sorted set       *)
(* waitlist:scores, a set of <<score, id>> entries; ids are given by the   *)
(* caller.  Members with equal scores are ordered by their ids.  The       *)
(* scores are doubles; within the call bounds of the specifications every  *)
(* midpoint is a whole number.                                             *)
(***************************************************************************)
ZMembers(z) == {e[2] : e \in z}

\* ZCARD.
ZCard(z) == Cardinality(z)

\* The entries that sort before e.
ZBefore(z, e) == {d \in z : d[1] < e[1] \/ (d[1] = e[1] /\ d[2] < e[2])}

\* ZRANGE 0 -1 WITHSCORES: the entries in order.
ZRange(z) == [i \in 1..ZCard(z) |-> CHOOSE e \in z : Cardinality(ZBefore(z, e)) = i - 1]

\* The ids in order.
ZOrder(z) == [i \in 1..ZCard(z) |-> ZRange(z)[i][2]]

\* ZADD: the member's score is set.
ZAdd(z, score, id) == {e \in z : e[2] # id} \cup {<<score, id>>}

\* ZREM.
ZRem(z, id) == {e \in z : e[2] # id}

\* getPosition(id) of the variant: ZRANK + 1, 0 for an id that is not there.
GapPosition(z, id) == IndexOf(ZOrder(z), id)

\* The score insertUser's script gives a new member.
InsertScore(z) == (ZCard(z) + 1) * ScoreGap

\* The id the script finds for the contact data: by email, then by phone.
GapExistingId(email, phone) ==
  IF email # None /\ emails[email] # None THEN emails[email]
  ELSE IF phone # None /\ phones[phone] # None THEN phones[phone]
  ELSE None

\* insertUser(id, data): the script.
GapInsertUserScript(p, id, email, phone, meta, track) ==
  /\ Begin(p)
  /\ LET l == [Args(track) EXCEPT !.email = email, !.phone = phone, !.meta = meta]
         existing == GapExistingId(email, phone)
     IN IF existing # None
        THEN /\ Goto(p, "gap_hset", [l EXCEPT !.id = existing, !.flag = TRUE])
             /\ UNCHANGED storeVars
        ELSE /\ scores' = ZAdd(scores, InsertScore(scores), id)
             /\ emails' = Bind(emails, email, id)
             /\ phones' = Bind(phones, phone, id)
             /\ Goto(p, "gap_hset", [l EXCEPT !.id = id, !.flag = FALSE])
             /\ UNCHANGED <<list, lock, users, signedUp, codeVars>>
  /\ UNCHANGED <<mgrVars, nextId>>

\* The record hset after the script.
GapInsertUserHset(p) ==
  /\ pc[p] = "gap_hset"
  /\ users' = [users EXCEPT ![loc[p].id] = InsertedRecord(loc[p])]
  /\ Goto(p, "gap_getpos", loc[p])
  /\ UNCHANGED <<listVars, emails, phones, signedUp, codeVars, mgrVars, nextId, calls>>

\* getPosition(userId) for the result.
GapInsertUserGetPos(p) ==
  /\ pc[p] = "gap_getpos"
  /\ Return(p, loc[p].track,
            Inserted("insertUser", [loc[p] EXCEPT !.pos = GapPosition(scores, loc[p].id)]))
  /\ UNCHANGED <<storeVars, mgrVars, nextId, calls>>

\* The score bumpUserUp's script gives the member it moves.
BumpScore(z, targetPos) ==
  IF targetPos = 1 THEN ZRange(z)[1][1] - ScoreGap
  ELSE LET beforeScore == ZRange(z)[targetPos - 1][1]
           atScore == ZRange(z)[targetPos][1]
       IN beforeScore + ((atScore - beforeScore) \div 2)

\* bumpUserUp(id, targetPosition): one script.  scores[targetPos - 1] or
\* scores[targetPos] is nil for a target outside 2..ZCARD; arithmetic on nil
\* is a script error, which eval throws.
BumpUserUp(p, id, targetPos, track) ==
  /\ Begin(p)
  /\ IF id \notin ZMembers(scores)
     THEN /\ Return(p, track, [Result("bumpUserUp", FALSE) EXCEPT !.id = id, !.pos = targetPos])
          /\ UNCHANGED scores
     ELSE IF targetPos # 1 /\ (targetPos < 2 \/ targetPos > ZCard(scores))
     THEN /\ Return(p, track, [Thrown("bumpUserUp", "script error")
                                 EXCEPT !.id = id, !.pos = targetPos])
          /\ UNCHANGED scores
     ELSE /\ scores' = ZAdd(scores, BumpScore(scores, targetPos), id)
          /\ Return(p, track, [Result("bumpUserUp", TRUE) EXCEPT !.id = id, !.pos = targetPos])
  /\ UNCHANGED <<list, lock, userVars, signedUp, codeVars, mgrVars, nextId>>

\* deleteUser(id) of the variant: the hget of the record.
GapDeleteUserHget(p, id, track) ==
  /\ Begin(p)
  /\ IF ~users[id].ex
     THEN Return(p, track, [Result("deleteUser", FALSE) EXCEPT !.id = id])
     ELSE Goto(p, "gap_multi", [Args(track) EXCEPT !.id = id, !.rec = users[id]])
  /\ UNCHANGED <<storeVars, mgrVars, nextId>>

\* The MULTI of zrem and three hdel.
GapDeleteUserMulti(p) ==
  /\ pc[p] = "gap_multi"
  /\ scores' = ZRem(scores, loc[p].id)
  /\ users' = [users EXCEPT ![loc[p].id] = NoRec]
  /\ emails' = Unbind(emails, loc[p].rec.email)
  /\ phones' = Unbind(phones, loc[p].rec.phone)
  /\ Return(p, loc[p].track, [Result("deleteUser", TRUE) EXCEPT !.id = loc[p].id])
  /\ UNCHANGED <<list, lock, signedUp, codeVars, mgrVars, nextId, calls>>

(***************************************************************************)
(* SpecGap: one caller of the gap-score variant inserts members under ids  *)
(* that are not in the order, bumps and deletes them, one call after the   *)
(* other.                                                                  *)
(***************************************************************************)
NextGap ==
  \/ \E id \in Ids \ ZMembers(scores), c \in GateContacts :
       calls < MaxGapCalls /\ GapInsertUserScript(Solo, id, c[1], c[2], NumMeta, TRUE)
  \/ GapInsertUserHset(Solo)
  \/ GapInsertUserGetPos(Solo)
  \/ \E id \in Ids, k \in 1..MaxIds :
       calls < MaxGapCalls /\ BumpUserUp(Solo, id, k, TRUE)
  \/ \E id \in Ids : calls < MaxGapCalls /\ GapDeleteUserHget(Solo, id, TRUE)
  \/ GapDeleteUserMulti(Solo)

SpecGap == Init /\ [][NextGap]_vars

\* The step in which the script of an insertUser call adds a new member.
GapInsertsNew == pc[Solo] = "idle" /\ pc'[Solo] = "gap_hset" /\ ~loc'[Solo].flag

\* C36: in the gap-score variant the script of insertUser gives a new
\* member a score above every score there is and the last position, and the
\* call returns the new member count as its position.
C36_GapInsertIsLast ==
  [][/\ GapInsertsNew =>
          /\ \A e \in scores : e[1] < InsertScore(scores)
          /\ GapPosition(scores', loc'[Solo].id) = ZCard(scores')
     /\ (pc[Solo] = "gap_getpos" /\ ~loc[Solo].flag) =>
          ret'[Solo].pos = ZCard(scores)
    ]_vars

\* The step in which a bumpUserUp call runs.
BumpRuns == calls' = calls + 1 /\ ret'[Solo].op = "bumpUserUp"

\* C37: in the gap-score variant bumpUserUp(id, K) of a present member, K
\* from 1 to its position, returns true and leaves the member at K and the
\* other members in their order; for an id that is not in the order it
\* returns false and changes nothing.
C37_GapBumpLandsAtTarget ==
  [][BumpRuns =>
       LET id == ret'[Solo].id
           k == ret'[Solo].pos
           pos == GapPosition(scores, id)
       IN /\ (pos >= 1 /\ k >= 1 /\ k <= pos) =>
               /\ ret'[Solo].ok
               /\ GapPosition(scores', id) = k
               /\ LRem1(ZOrder(scores'), id) = LRem1(ZOrder(scores), id)
          /\ pos = 0 =>
               /\ ~ret'[Solo].ok /\ ret'[Solo].err = ""
               /\ UNCHANGED storeVars
    ]_vars

\* The caller is inside a moveUser call on a member that was in the order
\* when the call started.
MovingMember ==
  /\ pc[Solo] \in {"mv_pos", "mv_script"}
  /\ IndexOf(loc[Solo].snap, loc[Solo].id) >= 1

\* C38: a member that is in the order when moveUser starts is in the order
\* in every state of the call and in the state the call returns in.
C38_MoverStaysInOrder ==
  /\ [](MovingMember => IndexOf(list, loc[Solo].id) >= 1)
  /\ [][MovingMember => IndexOf(list', loc[Solo].id) >= 1]_vars

(***************************************************************************)
(* SpecSigned: one caller inserts members, creates an invite code and a    *)
(* community code and sets the cutoff; then each caller makes one call,    *)
(* all together: moveUser, useInviteCode, markUserAsSignedUp or            *)
(* useCommunityCode.                                                       *)
(***************************************************************************)
\* The callers that have made their concurrent call.
SignedStarted == {p \in Procs : ret[p].op # ""}

SignedSetup == Quiescent /\ SignedStarted = {} /\ calls < MaxSignedCalls

SignedTurn(p) == pc[Solo] = "idle" /\ ret[p].op = ""

\* Members join with an email; an invite code is used with a phone.
EmailContacts == {<<e, None>> : e \in Emails}

PhoneContacts == {<<None, f>> : f \in Phones}

NextSigned ==
  \/ \E c \in EmailContacts :
       SignedSetup /\ InsertUserScript(Solo, c[1], c[2], NumMeta, FALSE)
  \/ InsertUserHset(Solo)
  \/ \E id \in IssuedIds : SignedSetup /\ CreateInviteCodeSigned(Solo, id, 0, FALSE)
  \/ CreateInviteCodeScript(Solo)
  \/ \E c \in CommCodes :
       SignedSetup /\ CreateCommunityCodeExists(Solo, c, MaxMaxUses, FALSE)
  \/ CreateCommunityCodeHset(Solo)
  \/ \E c \in 1..MaxIds : SignedSetup /\ SetSignupCutoff(Solo, c, FALSE)
  \/ \E p \in Callers, id \in SeqToSet(list), t \in 1..Len(list) :
       SignedTurn(p) /\ MoveUserSigned(p, id, t, TRUE)
  \/ \E p \in Callers : MoveUserPos(p)
  \/ \E p \in Callers : MoveUserAttempt(p)
  \/ \E p \in Callers, c \in Codes, d \in PhoneContacts :
       SignedTurn(p) /\ UseInviteCodeCreator(p, c, d[1], d[2], NumMeta, MaxBump, TRUE)
  \/ \E p \in Callers : UseInviteCodePos(p)
  \/ \E p \in Callers : UseInviteCodeSigned(p)
  \/ \E p \in Callers : UseInviteCodeScript(p)
  \/ \E p \in Callers : UseInviteCodeHset(p)
  \/ \E p \in Callers : UseInviteCodeGetPos(p)
  \/ \E p \in Callers, id \in SeqToSet(list) :
       SignedTurn(p) /\ MarkUserAsSignedUp(p, id, TRUE)
  \/ \E p \in Callers, c \in CommCodes, d \in EmailContacts :
       SignedTurn(p) /\ UseCommunityCode(p, c, d[1], d[2], TRUE)

SpecSigned == Init /\ [][NextSigned]_vars

\* The step in which a run of p's move script ends, and the one in which the
\* script of p's useInviteCode call ends.
MoveScriptRuns(p) == pc[p] = "mv_script" /\ loc'[p] # loc[p]

UseScriptRuns(p) == pc[p] = "uic_script" /\ pc'[p] # "uic_script"

\* C39: a run of the move script for a member that is signed up, and a run
\* of the useInviteCode script whose creator is signed up, leave the member
\* where it is.
C39_SignedUpStaysPut ==
  [][\A p \in Callers :
       /\ (MoveScriptRuns(p) /\ loc[p].id \in signedUp) =>
            IndexOf(list', loc[p].id) = IndexOf(list, loc[p].id)
       /\ (UseScriptRuns(p) /\ loc[p].creator \in signedUp) =>
            IndexOf(list', loc[p].creator) = IndexOf(list, loc[p].creator)
    ]_vars

\* C40: when attachEmail(id, e) and attachPhone(id, f) of two callers for
\* one member have both returned true, the member's record carries e and f
\* and the email and phone index bind them to the member.
C40_BothAttachesKept ==
  \A p, q \in Callers :
    (/\ ret[p].op = "attachEmail" /\ ret[p].ok
     /\ ret[q].op = "attachPhone" /\ ret[q].ok
     /\ ret[p].id = ret[q].id) =>
       /\ users[ret[p].id].email = ret[p].email
       /\ users[ret[p].id].phone = ret[q].phone
       /\ emails[ret[p].email] = ret[p].id
       /\ phones[ret[q].phone] = ret[p].id

====
